---------------------------- MODULE Spec2Model ----------------------------
(***************************************************************************)
(* The recursive-descent front-end of Weld (src/weld/parser.rs).           *)
(*                                                                         *)
(* A token is a record [k |-> <variant of Token>] with the payload of the  *)
(* variant beside it; an identifier's name is a sequence of one-character  *)
(* strings, so that starts_with("$") and the decimal field index can be    *)
(* computed.  An expression is a record with the two fields of PartialExpr *)
(* (kind, ty) and the fields of its ExprKind variant.                      *)
(*                                                                         *)
(* Every parsing rule of `impl Parser` is an operator of the token slice   *)
(* and of the position it starts at.  It returns                            *)
(*    [ok, pos, hi, val, err]                                               *)
(* where pos is Parser.position when the rule returns, hi the index of the *)
(* last element of the slice that peek() or next() read (the position only *)
(* grows, so it is also the highest index read), val the Ok value and err  *)
(* the Err value.                                                          *)
(***************************************************************************)
EXTENDS Integers, Sequences, FiniteSets, TLC

VARIABLES
    tokens,     \* the token slice handed to Parser::new (output of tokenize)
    pc,         \* "start" before the call, then the entry point that ran
    position,   \* Parser.position when the entry point returns
    hi,         \* highest index of `tokens` read by peek()/next(); -1 if none
    inner,      \* what the grammar rule returned to the entry point
    ret,        \* what the entry point returned
    ONCE,               \* easy_ll: the state of the Once
    initialize_failed,  \* easy_ll: the static flag
    threads,            \* easy_ll: where each thread is in compile_module
    modules,            \* easy_ll: the CompiledModule objects, in creation order
    initialize_runs,    \* easy_ll: how often initialize() has been entered
    calls               \* easy_ll: how often compile_module has been called

easy_ll == <<ONCE, initialize_failed, threads, modules, initialize_runs, calls>>

vars == <<tokens, pc, position, hi, inner, ret, easy_ll>>

---------------------------------------------------------------------------
(* Tokens *)

T(kind) == [k |-> kind]
TIdent(name) == [k |-> "TIdent", name |-> name]
TI32Literal(v) == [k |-> "TI32Literal", value |-> v]
TI64Literal(v) == [k |-> "TI64Literal", value |-> v]
TF32Literal(v) == [k |-> "TF32Literal", value |-> v]
TF64Literal(v) == [k |-> "TF64Literal", value |-> v]
TBoolLiteral(v) == [k |-> "TBoolLiteral", value |-> v]

TEndOfInput == T("TEndOfInput")
TMacro == T("TMacro")
TLet == T("TLet")
TIf == T("TIf")
TFor == T("TFor")
TMerge == T("TMerge")
TResult == T("TResult")
TAppender == T("TAppender")
TVec == T("TVec")
TI32 == T("TI32")
TI64 == T("TI64")
TF32 == T("TF32")
TF64 == T("TF64")
TBool == T("TBool")
TOpenParen == T("TOpenParen")
TCloseParen == T("TCloseParen")
TOpenBracket == T("TOpenBracket")
TCloseBracket == T("TCloseBracket")
TOpenBrace == T("TOpenBrace")
TCloseBrace == T("TCloseBrace")
TComma == T("TComma")
TSemicolon == T("TSemicolon")
TColon == T("TColon")
TDot == T("TDot")
TEqual == T("TEqual")
TQuestion == T("TQuestion")
TBar == T("TBar")
TLogicalOr == T("TLogicalOr")
TLogicalAnd == T("TLogicalAnd")
TBitwiseAnd == T("TBitwiseAnd")
TXor == T("TXor")
TEqualEqual == T("TEqualEqual")
TNotEqual == T("TNotEqual")
TLessThan == T("TLessThan")
TLessThanOrEqual == T("TLessThanOrEqual")
TGreaterThan == T("TGreaterThan")
TGreaterThanOrEqual == T("TGreaterThanOrEqual")
TPlus == T("TPlus")
TMinus == T("TMinus")
TTimes == T("TTimes")
TDivide == T("TDivide")
TModulo == T("TModulo")

\* What an index past the end of the slice stands for: Rust panics there, so
\* the value is never seen by the program; `hi` records that it was asked for.
OutOfRange == T("<index out of range>")

\* tokens[position], positions counted from 0 as in the source.
Tok(toks, p) == IF p >= 0 /\ p < Len(toks) THEN toks[p + 1] ELSE OutOfRange

---------------------------------------------------------------------------
(* Partial types *)

Unknown == [t |-> "Unknown"]
Scalar(kind) == [t |-> "Scalar", scalar |-> kind]
Vector(elem) == [t |-> "Vector", elem |-> elem]
Struct(fields) == [t |-> "Struct", fields |-> fields]
Appender(elem) == [b |-> "Appender", elem |-> elem]
Builder(kind) == [t |-> "Builder", builder |-> kind]

(* Expressions: expr_box(kind) gives the node with ty = Unknown *)

Symbol(name) == [name |-> name, id |-> 0]
PartialParameter(name, ty) == [name |-> name, ty |-> ty]
Macro(name, params, body) == [name |-> name, parameters |-> params, body |-> body]
Program(ms, body) == [macros |-> ms, body |-> body]

I32Literal(v) == [kind |-> "I32Literal", ty |-> Unknown, value |-> v]
I64Literal(v) == [kind |-> "I64Literal", ty |-> Unknown, value |-> v]
F32Literal(v) == [kind |-> "F32Literal", ty |-> Unknown, value |-> v]
F64Literal(v) == [kind |-> "F64Literal", ty |-> Unknown, value |-> v]
BoolLiteral(v) == [kind |-> "BoolLiteral", ty |-> Unknown, value |-> v]
Ident(sym) == [kind |-> "Ident", ty |-> Unknown, symbol |-> sym]
BinOp(op, l, r) == [kind |-> "BinOp", ty |-> Unknown, op |-> op, left |-> l, right |-> r]
Let(sym, value, body) ==
    [kind |-> "Let", ty |-> Unknown, symbol |-> sym, value |-> value, body |-> body]
Lambda(params, body) == [kind |-> "Lambda", ty |-> Unknown, params |-> params, body |-> body]
GetField(e, index) == [kind |-> "GetField", ty |-> Unknown, expr |-> e, index |-> index]
Apply(f, params) == [kind |-> "Apply", ty |-> Unknown, func |-> f, params |-> params]
MakeVector(es) == [kind |-> "MakeVector", ty |-> Unknown, elems |-> es]
MakeStruct(es) == [kind |-> "MakeStruct", ty |-> Unknown, elems |-> es]
If(c, t, f) == [kind |-> "If", ty |-> Unknown, cond |-> c, on_true |-> t, on_false |-> f]
For(d, b, f) == [kind |-> "For", ty |-> Unknown, data |-> d, builders |-> b, func |-> f]
Merge(b, v) == [kind |-> "Merge", ty |-> Unknown, builder |-> b, value |-> v]
Res(b) == [kind |-> "Res", ty |-> Unknown, builder |-> b]
NewBuilder == [kind |-> "NewBuilder", ty |-> Unknown]

\* `expr.ty = ty` on a node
WithTy(e, ty) == [e EXCEPT !.ty = ty]

---------------------------------------------------------------------------
(* WeldResult: Ok(val) / Err(message), with the parser's cursor beside it *)

NoToken == T("<none>")
Unit == <<>>
WeldError(msg, tok) == [msg |-> msg, tok |-> tok]
NoError == WeldError("", NoToken)

Ok(p, h, v) == [ok |-> TRUE, pos |-> p, hi |-> h, val |-> v, err |-> NoError]
Err(p, h, msg, tok) ==
    [ok |-> FALSE, pos |-> p, hi |-> h, val |-> Unit, err |-> WeldError(msg, tok)]

\* peek: the token under the cursor; the cursor stays
peek(toks, p) == Ok(p, p, Tok(toks, p))

\* A next that starts over from the first token (the faulty variant the
\* cursor property is tried against)
next_restarting(toks, p) == Ok(0, p, Tok(toks, p))

\* next: the token under the cursor; `self.position += 1`
next(toks, p) == Ok(p + 1, p, Tok(toks, p))

\* A consume that accepts whatever token comes (the faulty variant the
\* end-of-slice property is tried against)
consume_unchecked(toks, p, expected) == Ok(p + 1, p, Unit)

\* consume: next(), then the comparison with `expected`
consume(toks, p, expected) ==
    IF Tok(toks, p) # expected
    THEN Err(p + 1, p, "Expected '{}'", expected)
    ELSE Ok(p + 1, p, Unit)

\* An is_done that only knows the end of the slice (the faulty variant the
\* entry-point property is tried against)
is_done_at_len(toks, p) == p = Len(toks)

\* is_done: the peek() is evaluated only when position # len (|| short-circuits)
is_done(toks, p) == p = Len(toks) \/ Tok(toks, p) = TEndOfInput

\* A symbol that looks at the token with peek() and leaves it when it is no
\* identifier (the faulty variant the progress property is tried against)
symbol_peeking(toks, p) ==
    IF Tok(toks, p).k = "TIdent"
    THEN Ok(p + 1, p, Symbol(Tok(toks, p).name))
    ELSE Err(p, p, "Expected identifier but got '{}'", Tok(toks, p))

\* symbol: next() must be an identifier
symbol(toks, p) ==
    IF Tok(toks, p).k = "TIdent"
    THEN Ok(p + 1, p, Symbol(Tok(toks, p).name))
    ELSE Err(p + 1, p, "Expected identifier but got '{}'", Tok(toks, p))


---------------------------------------------------------------------------
(* try!(r): an Err returns from the enclosing rule at once; on Ok the rule
   goes on (K) with the value and the cursor that r left *)
Try(r, K(_)) == IF r.ok THEN K(r) ELSE r

---------------------------------------------------------------------------
(* Types *)

RECURSIVE type_(_, _), type_struct_while(_, _, _)

\* the `while *self.peek() != TCloseBrace` loop of type_, entered with the
\* cursor at p and the fields collected so far
type_struct_while(toks, p, types) ==
    IF Tok(toks, p) # TCloseBrace
    THEN Try(type_(toks, p), LAMBDA ty :
         IF Tok(toks, ty.pos) = TComma
         THEN type_struct_while(toks, ty.pos + 1, Append(types, ty.val))
         ELSE IF Tok(toks, ty.pos) # TCloseBrace
         THEN Err(ty.pos, ty.pos, "Expected ',' or '}'", NoToken)
         ELSE type_struct_while(toks, ty.pos, Append(types, ty.val)))
    ELSE Ok(p, p, types)

\* A bracketed_type that keeps no element type (the faulty variant the type
\* syntax property is tried against)
bracketed_type_forgetful(toks, p) ==
    Try(consume(toks, p, TOpenBracket), LAMBDA open :
    Try(type_(toks, open.pos), LAMBDA elem_type :
    Try(consume(toks, elem_type.pos, TCloseBracket), LAMBDA close :
    Ok(close.pos, close.hi, Unknown))))

\* `[` T `]` after the keyword vec or appender
bracketed_type(toks, p) ==
    Try(consume(toks, p, TOpenBracket), LAMBDA open :
    Try(type_(toks, open.pos), LAMBDA elem_type :
    Try(consume(toks, elem_type.pos, TCloseBracket), LAMBDA close :
    Ok(close.pos, close.hi, elem_type.val))))

type_(toks, p) ==
    LET tok == Tok(toks, p) IN
    CASE tok = TI32 -> Ok(p + 1, p, Scalar("I32"))
      [] tok = TI64 -> Ok(p + 1, p, Scalar("I64"))
      [] tok = TF32 -> Ok(p + 1, p, Scalar("F32"))
      [] tok = TF64 -> Ok(p + 1, p, Scalar("F64"))
      [] tok = TBool -> Ok(p + 1, p, Scalar("Bool"))
      [] tok = TVec ->
            Try(bracketed_type(toks, p + 1), LAMBDA elem_type :
            Ok(elem_type.pos, elem_type.hi, Vector(elem_type.val)))
      [] tok = TAppender ->
            Try(bracketed_type(toks, p + 1), LAMBDA elem_type :
            Ok(elem_type.pos, elem_type.hi, Builder(Appender(elem_type.val))))
      [] tok = TOpenBrace ->
            Try(type_struct_while(toks, p + 1, <<>>), LAMBDA types :
            Try(consume(toks, types.pos, TCloseBrace), LAMBDA close :
            Ok(close.pos, close.hi, Struct(types.val))))
      [] tok = TQuestion -> Ok(p + 1, p, Unknown)
      [] OTHER -> Err(p + 1, p, "Expected type but got '{}'", tok)

optional_type(toks, p) ==
    IF Tok(toks, p) = TColon
    THEN Try(consume(toks, p, TColon), LAMBDA colon : type_(toks, colon.pos))
    ELSE Ok(p, p, Unknown)

---------------------------------------------------------------------------
(* u32::from_str_radix(s, 10) on the text after `$`.  A u32 is kept as two
   16-bit halves, hi * 2^16 + lo, so that every value up to u32::MAX is a
   value of the model *)

Digits == <<"0", "1", "2", "3", "4", "5", "6", "7", "8", "9">>
IsDigit(c) == \E d \in 1..10 : Digits[d] = c
DigitValue(c) == (CHOOSE d \in 1..10 : Digits[d] = c) - 1

Half == 65536
U32(high, low) == [hi |-> high, lo |-> low]
U32Max == U32(Half - 1, Half - 1)

\* acc.checked_mul(10) followed by checked_add(digit): None when the product or
\* the sum is above u32::MAX
checked_mul_add(acc, digit) ==
    LET low == acc.lo * 10 + digit
        high == acc.hi * 10 + low \div Half
    IN  IF high >= Half THEN [ok |-> FALSE, val |-> U32(0, 0)]
        ELSE [ok |-> TRUE, val |-> U32(high, low % Half)]

\* from_str_digits with wrapping_mul and wrapping_add (the faulty variant the
\* field-index property is tried against)
RECURSIVE from_str_digits_wrapping(_, _)
from_str_digits_wrapping(s, acc) ==
    IF s = <<>> THEN [ok |-> TRUE, val |-> acc]
    ELSE IF ~IsDigit(Head(s)) THEN [ok |-> FALSE, val |-> U32(0, 0)]
    ELSE from_str_digits_wrapping(Tail(s),
             U32((acc.hi * 10 + (acc.lo * 10 + DigitValue(Head(s))) \div Half) % Half,
                 (acc.lo * 10 + DigitValue(Head(s))) % Half))

RECURSIVE from_str_digits(_, _)
from_str_digits(s, acc) ==
    IF s = <<>> THEN [ok |-> TRUE, val |-> acc]
    ELSE IF ~IsDigit(Head(s)) THEN [ok |-> FALSE, val |-> U32(0, 0)]
    ELSE IF ~checked_mul_add(acc, DigitValue(Head(s))).ok
    THEN [ok |-> FALSE, val |-> U32(0, 0)]
    ELSE from_str_digits(Tail(s), checked_mul_add(acc, DigitValue(Head(s))).val)

from_str_radix(s) ==
    IF s = <<>> THEN [ok |-> FALSE, val |-> U32(0, 0)] ELSE from_str_digits(s, U32(0, 0))

starts_with(s, c) == Len(s) >= 1 /\ s[1] = c

---------------------------------------------------------------------------
(* Expressions *)

RECURSIVE expr(_, _), leaf_expr(_, _), apply_while(_, _, _)

apply_expr(toks, p) ==
    Try(leaf_expr(toks, p), LAMBDA e : apply_while(toks, e.pos, e.val))

\* An ascribe_expr that reads the type and leaves the node as it was (the
\* faulty variant the attached-type property is tried against)
ascribe_expr_dropping(toks, p) ==
    Try(apply_expr(toks, p), LAMBDA e :
    IF Tok(toks, e.pos) = TColon
    THEN Try(optional_type(toks, e.pos), LAMBDA ty : Ok(ty.pos, ty.hi, e.val))
    ELSE Ok(e.pos, e.pos, e.val))

\* An ascribe_expr that takes a second ascription after the first (the faulty
\* variant the single-ascription property is tried against)
ascribe_expr_twice(toks, p) ==
    Try(apply_expr(toks, p), LAMBDA e :
    IF Tok(toks, e.pos) = TColon
    THEN Try(optional_type(toks, e.pos), LAMBDA ty :
         IF Tok(toks, ty.pos) = TColon
         THEN Try(optional_type(toks, ty.pos), LAMBDA second :
              Ok(second.pos, second.hi, WithTy(e.val, second.val)))
         ELSE Ok(ty.pos, ty.hi, WithTy(e.val, ty.val)))
    ELSE Ok(e.pos, e.pos, e.val))

\* An ascribe_expr that attaches the type only to a node that has none yet
\* (the faulty variant the parentheses property is tried against)
ascribe_expr_keeping(toks, p) ==
    Try(apply_expr(toks, p), LAMBDA e :
    IF Tok(toks, e.pos) = TColon
    THEN Try(optional_type(toks, e.pos), LAMBDA ty :
         Ok(ty.pos, ty.hi, IF e.val.ty = Unknown THEN WithTy(e.val, ty.val) ELSE e.val))
    ELSE Ok(e.pos, e.pos, e.val))

ascribe_expr(toks, p) ==
    Try(apply_expr(toks, p), LAMBDA e :
    IF Tok(toks, e.pos) = TColon
    THEN Try(optional_type(toks, e.pos), LAMBDA ty : Ok(ty.pos, ty.hi, WithTy(e.val, ty.val)))
    ELSE Ok(e.pos, e.pos, e.val))

(* The rules of the precedence chain.  Rule X parses its first operand, then
   loops (or, for == and <, tests once) on the operator token and parses the
   next operand with the same sub-rule.  X_operands(toks, p, res, op) is that
   rule from the point where an operand is parsed at p: op = NoOp and res is
   unused for the first operand (`let mut res = try!(...)`), and for a later
   one res is the value built so far and op the operator consumed before p
   (`res = expr_box(BinOp(op, res, right))`).  After the operand comes the
   peek() of the loop test. *)

NoOp == ""
NoExpr == Unit
\* A fold that nests to the right of the new operand (the faulty variant the
\* left-fold property is tried against)
Folded_swapped(op, res, right) == IF op = NoOp THEN right ELSE BinOp(op, right, res)
Folded(op, res, right) == IF op = NoOp THEN right ELSE BinOp(op, res, right)

RECURSIVE product_operands(_, _, _, _), sum_operands(_, _, _, _),
          comparison_operands(_, _, _, _), equality_operands(_, _, _, _),
          bitwise_and_operands(_, _, _, _), xor_operands(_, _, _, _),
          bitwise_or_operands(_, _, _, _), logical_and_operands(_, _, _, _),
          logical_or_operands(_, _, _, _)

\* the `match *self.next()` of product_expr
product_expr_op(tok) ==
    CASE tok = TTimes -> "Multiply"
      [] tok = TDivide -> "Divide"
      [] OTHER -> "Modulo"

product_operands(toks, p, res, op) ==
    Try(ascribe_expr(toks, p), LAMBDA right :
    IF \/ Tok(toks, right.pos) = TTimes \/ Tok(toks, right.pos) = TDivide
       \/ Tok(toks, right.pos) = TModulo
    THEN product_operands(toks, right.pos + 1, Folded(op, res, right.val),
                          product_expr_op(Tok(toks, right.pos)))
    ELSE Ok(right.pos, right.pos, Folded(op, res, right.val)))

product_expr(toks, p) == product_operands(toks, p, NoExpr, NoOp)

\* A sum_expr whose operands are parsed one level too deep, by ascribe_expr
\* (the faulty variant the precedence property is tried against)
sum_operands_skipping_product(toks, p, res, op) ==
    Try(ascribe_expr(toks, p), LAMBDA right :
    IF Tok(toks, right.pos) = TPlus \/ Tok(toks, right.pos) = TMinus
    THEN sum_operands(toks, right.pos + 1, Folded(op, res, right.val),
                      IF Tok(toks, right.pos) = TPlus THEN "Add" ELSE "Subtract")
    ELSE Ok(right.pos, right.pos, Folded(op, res, right.val)))

sum_operands(toks, p, res, op) ==
    Try(product_expr(toks, p), LAMBDA right :
    IF Tok(toks, right.pos) = TPlus \/ Tok(toks, right.pos) = TMinus
    THEN sum_operands(toks, right.pos + 1, Folded(op, res, right.val),
                      IF Tok(toks, right.pos) = TPlus THEN "Add" ELSE "Subtract")
    ELSE Ok(right.pos, right.pos, Folded(op, res, right.val)))

sum_expr(toks, p) == sum_operands(toks, p, NoExpr, NoOp)

\* the `match *self.next()` of comparison_expr
comparison_expr_op(tok) ==
    CASE tok = TLessThan -> "LessThan"
      [] tok = TGreaterThan -> "GreaterThan"
      [] tok = TLessThanOrEqual -> "LessThanOrEqual"
      [] OTHER -> "GreaterThanOrEqual"

\* `if`, not `while`: after the second operand the rule returns
comparison_operands(toks, p, res, op) ==
    Try(sum_expr(toks, p), LAMBDA right :
    IF op # NoOp THEN Ok(right.pos, right.hi, BinOp(op, res, right.val))
    ELSE IF \/ Tok(toks, right.pos) = TLessThan \/ Tok(toks, right.pos) = TLessThanOrEqual
            \/ Tok(toks, right.pos) = TGreaterThan
            \/ Tok(toks, right.pos) = TGreaterThanOrEqual
    THEN comparison_operands(toks, right.pos + 1, right.val,
                             comparison_expr_op(Tok(toks, right.pos)))
    ELSE Ok(right.pos, right.pos, right.val))

comparison_expr(toks, p) == comparison_operands(toks, p, NoExpr, NoOp)

\* An equality_expr that loops like the associative levels (the faulty variant
\* the non-associativity property is tried against)
equality_operands_looping(toks, p, res, op) ==
    Try(comparison_expr(toks, p), LAMBDA right :
    IF Tok(toks, right.pos) = TEqualEqual \/ Tok(toks, right.pos) = TNotEqual
    THEN equality_operands(toks, right.pos + 1, Folded(op, res, right.val),
                           IF Tok(toks, right.pos) = TEqualEqual THEN "Equal" ELSE "NotEqual")
    ELSE Ok(right.pos, right.pos, Folded(op, res, right.val)))

equality_operands(toks, p, res, op) ==
    Try(comparison_expr(toks, p), LAMBDA right :
    IF op # NoOp THEN Ok(right.pos, right.hi, BinOp(op, res, right.val))
    ELSE IF Tok(toks, right.pos) = TEqualEqual \/ Tok(toks, right.pos) = TNotEqual
    THEN equality_operands(toks, right.pos + 1, right.val,
                           IF Tok(toks, right.pos) = TEqualEqual THEN "Equal" ELSE "NotEqual")
    ELSE Ok(right.pos, right.pos, right.val))

equality_expr(toks, p) == equality_operands(toks, p, NoExpr, NoOp)

bitwise_and_operands(toks, p, res, op) ==
    Try(equality_expr(toks, p), LAMBDA right :
    IF Tok(toks, right.pos) = TBitwiseAnd
    THEN Try(consume(toks, right.pos, TBitwiseAnd), LAMBDA c :
         bitwise_and_operands(toks, c.pos, Folded(op, res, right.val), "BitwiseAnd"))
    ELSE Ok(right.pos, right.pos, Folded(op, res, right.val)))

bitwise_and_expr(toks, p) == bitwise_and_operands(toks, p, NoExpr, NoOp)

xor_operands(toks, p, res, op) ==
    Try(bitwise_and_expr(toks, p), LAMBDA right :
    IF Tok(toks, right.pos) = TXor
    THEN Try(consume(toks, right.pos, TXor), LAMBDA c :
         xor_operands(toks, c.pos, Folded(op, res, right.val), "Xor"))
    ELSE Ok(right.pos, right.pos, Folded(op, res, right.val)))

xor_expr(toks, p) == xor_operands(toks, p, NoExpr, NoOp)

bitwise_or_operands(toks, p, res, op) ==
    Try(xor_expr(toks, p), LAMBDA right :
    IF Tok(toks, right.pos) = TBar
    THEN Try(consume(toks, right.pos, TBar), LAMBDA c :
         bitwise_or_operands(toks, c.pos, Folded(op, res, right.val), "BitwiseOr"))
    ELSE Ok(right.pos, right.pos, Folded(op, res, right.val)))

bitwise_or_expr(toks, p) == bitwise_or_operands(toks, p, NoExpr, NoOp)

logical_and_operands(toks, p, res, op) ==
    Try(bitwise_or_expr(toks, p), LAMBDA right :
    IF Tok(toks, right.pos) = TLogicalAnd
    THEN Try(consume(toks, right.pos, TLogicalAnd), LAMBDA c :
         logical_and_operands(toks, c.pos, Folded(op, res, right.val), "LogicalAnd"))
    ELSE Ok(right.pos, right.pos, Folded(op, res, right.val)))

logical_and_expr(toks, p) == logical_and_operands(toks, p, NoExpr, NoOp)

logical_or_operands(toks, p, res, op) ==
    Try(logical_and_expr(toks, p), LAMBDA right :
    IF Tok(toks, right.pos) = TLogicalOr
    THEN Try(consume(toks, right.pos, TLogicalOr), LAMBDA c :
         logical_or_operands(toks, c.pos, Folded(op, res, right.val), "LogicalOr"))
    ELSE Ok(right.pos, right.pos, Folded(op, res, right.val)))

logical_or_expr(toks, p) == logical_or_operands(toks, p, NoExpr, NoOp)

operator_expr(toks, p) == logical_or_expr(toks, p)

RECURSIVE apply_params_while(_, _, _), make_vector_while(_, _, _),
          make_struct_while(_, _, _), lambda_params_while(_, _, _)

\* the argument list of a call, after its `(`
\* The argument loop pushing each argument to the front (the faulty variant
\* the application-chain property is tried against)
RECURSIVE apply_params_while_prepending(_, _, _)
apply_params_while_prepending(toks, p, params) ==
    IF Tok(toks, p) # TCloseParen
    THEN Try(expr(toks, p), LAMBDA param :
         IF Tok(toks, param.pos) = TComma
         THEN apply_params_while_prepending(toks, param.pos + 1, <<param.val>> \o params)
         ELSE IF Tok(toks, param.pos) # TCloseParen
         THEN Err(param.pos, param.pos, "Expected ',' or ')'", NoToken)
         ELSE apply_params_while_prepending(toks, param.pos, <<param.val>> \o params))
    ELSE Ok(p, p, params)

apply_params_while(toks, p, params) ==
    IF Tok(toks, p) # TCloseParen
    THEN Try(expr(toks, p), LAMBDA param :
         IF Tok(toks, param.pos) = TComma
         THEN apply_params_while(toks, param.pos + 1, Append(params, param.val))
         ELSE IF Tok(toks, param.pos) # TCloseParen
         THEN Err(param.pos, param.pos, "Expected ',' or ')'", NoToken)
         ELSE apply_params_while(toks, param.pos, Append(params, param.val)))
    ELSE Ok(p, p, params)

\* the loop of apply_expr, entered with the cursor at p and the expression
\* parsed so far; next() reads index p and, after a `.`, index p + 1
apply_while(toks, p, e) ==
    IF Tok(toks, p) = TDot \/ Tok(toks, p) = TOpenParen
    THEN IF Tok(toks, p) = TDot
         THEN LET tok == Tok(toks, p + 1) IN
              IF tok.k = "TIdent"
              THEN IF starts_with(tok.name, "$")
                   THEN LET index == from_str_radix(Tail(tok.name)) IN
                        IF index.ok
                        THEN apply_while(toks, p + 2, GetField(e, index.val))
                        ELSE Err(p + 2, p + 1, "Expected field index but got '{}'", tok)
                   ELSE apply_while(toks, p + 2, e)   \* the `if` has no else
              ELSE Err(p + 2, p + 1, "Expected field index but got '{}'", tok)
         ELSE Try(apply_params_while(toks, p + 1, <<>>), LAMBDA params :
              Try(consume(toks, params.pos, TCloseParen), LAMBDA close :
              apply_while(toks, close.pos, Apply(e, params.val))))
    ELSE Ok(p, p, e)

make_vector_while(toks, p, exprs) ==
    IF Tok(toks, p) # TCloseBracket
    THEN Try(expr(toks, p), LAMBDA e :
         IF Tok(toks, e.pos) = TComma
         THEN make_vector_while(toks, e.pos + 1, Append(exprs, e.val))
         ELSE IF Tok(toks, e.pos) # TCloseBracket
         THEN Err(e.pos, e.pos, "Expected ',' or ']'", NoToken)
         ELSE make_vector_while(toks, e.pos, Append(exprs, e.val)))
    ELSE Ok(p, p, exprs)

\* The struct loop skipping any comma it meets at the head of the loop (the
\* faulty variant the comma property is tried against)
RECURSIVE make_struct_while_skipping_commas(_, _, _)
make_struct_while_skipping_commas(toks, p, exprs) ==
    IF Tok(toks, p) = TComma THEN make_struct_while_skipping_commas(toks, p + 1, exprs)
    ELSE IF Tok(toks, p) # TCloseBrace
    THEN Try(expr(toks, p), LAMBDA e :
         IF Tok(toks, e.pos) = TComma
         THEN make_struct_while_skipping_commas(toks, e.pos + 1, Append(exprs, e.val))
         ELSE IF Tok(toks, e.pos) # TCloseBrace
         THEN Err(e.pos, e.pos, "Expected ',' or '}'", NoToken)
         ELSE make_struct_while_skipping_commas(toks, e.pos, Append(exprs, e.val)))
    ELSE Ok(p, p, exprs)

make_struct_while(toks, p, exprs) ==
    IF Tok(toks, p) # TCloseBrace
    THEN Try(expr(toks, p), LAMBDA e :
         IF Tok(toks, e.pos) = TComma
         THEN make_struct_while(toks, e.pos + 1, Append(exprs, e.val))
         ELSE IF Tok(toks, e.pos) # TCloseBrace
         THEN Err(e.pos, e.pos, "Expected ',' or '}'", NoToken)
         ELSE make_struct_while(toks, e.pos, Append(exprs, e.val)))
    ELSE Ok(p, p, exprs)

\* `(` e1 `,` ... `,` en `)` after the keyword if, for, merge or result:
\* consume(TOpenParen), then expr() and consume(TComma) in turn, the last
\* expr() followed by consume(TCloseParen); the value is <<e1, ..., en>>
RECURSIVE keyword_args(_, _, _, _)
keyword_args(toks, p, n, args) ==
    Try(expr(toks, p), LAMBDA e :
    Try(consume(toks, e.pos, IF n = 1 THEN TCloseParen ELSE TComma), LAMBDA sep :
    IF n = 1 THEN Ok(sep.pos, sep.hi, Append(args, e.val))
    ELSE keyword_args(toks, sep.pos, n - 1, Append(args, e.val))))

keyword_form(toks, p, n) ==
    Try(consume(toks, p, TOpenParen), LAMBDA open : keyword_args(toks, open.pos, n, <<>>))

\* A leaf_expr that folds a Minus and an integer literal into a negative
\* literal (the faulty variant the no-unary-minus property is tried against)
RECURSIVE leaf_expr_negating(_, _)
leaf_expr_negating(toks, p) ==
    LET tok == Tok(toks, p) IN
    CASE tok.k = "TI32Literal" -> Ok(p + 1, p, I32Literal(tok.value))
      [] tok.k = "TI64Literal" -> Ok(p + 1, p, I64Literal(tok.value))
      [] tok.k = "TF32Literal" -> Ok(p + 1, p, F32Literal(tok.value))
      [] tok.k = "TF64Literal" -> Ok(p + 1, p, F64Literal(tok.value))
      [] tok.k = "TBoolLiteral" -> Ok(p + 1, p, BoolLiteral(tok.value))
      [] tok.k = "TIdent" -> Ok(p + 1, p, Ident(Symbol(tok.name)))
      [] tok = TOpenParen ->
            Try(expr(toks, p + 1), LAMBDA e :
            IF Tok(toks, e.pos) # TCloseParen
            THEN Err(e.pos + 1, e.pos, "Expected ')'", NoToken)
            ELSE Ok(e.pos + 1, e.pos, e.val))
      [] tok = TOpenBracket ->
            Try(make_vector_while(toks, p + 1, <<>>), LAMBDA exprs :
            Try(consume(toks, exprs.pos, TCloseBracket), LAMBDA close :
            Ok(close.pos, close.hi, MakeVector(exprs.val))))
      [] tok = TOpenBrace ->
            Try(make_struct_while(toks, p + 1, <<>>), LAMBDA exprs :
            Try(consume(toks, exprs.pos, TCloseBrace), LAMBDA close :
            Ok(close.pos, close.hi, MakeStruct(exprs.val))))
      [] tok = TIf ->
            Try(keyword_form(toks, p + 1, 3), LAMBDA a :
            Ok(a.pos, a.hi, If(a.val[1], a.val[2], a.val[3])))
      [] tok = TFor ->
            Try(keyword_form(toks, p + 1, 3), LAMBDA a :
            Ok(a.pos, a.hi, For(a.val[1], a.val[2], a.val[3])))
      [] tok = TMerge ->
            Try(keyword_form(toks, p + 1, 2), LAMBDA a :
            Ok(a.pos, a.hi, Merge(a.val[1], a.val[2])))
      [] tok = TResult ->
            Try(keyword_form(toks, p + 1, 1), LAMBDA a :
            Ok(a.pos, a.hi, Res(a.val[1])))
      [] tok = TAppender ->
            IF Tok(toks, p + 1) = TOpenBracket
            THEN Try(consume(toks, p + 1, TOpenBracket), LAMBDA open :
                 Try(type_(toks, open.pos), LAMBDA elem_type :
                 Try(consume(toks, elem_type.pos, TCloseBracket), LAMBDA close :
                 Ok(close.pos, close.hi, WithTy(NewBuilder, Builder(Appender(elem_type.val)))))))
            ELSE Ok(p + 1, p + 1, WithTy(NewBuilder, Builder(Appender(Unknown))))
      [] tok = TMinus /\ Tok(toks, p + 1).k = "TI32Literal" ->
            Ok(p + 2, p + 1, I32Literal(0 - Tok(toks, p + 1).value))
      [] OTHER -> Err(p + 1, p, "Expected expression but got '{}'", tok)

leaf_expr(toks, p) ==
    LET tok == Tok(toks, p) IN
    CASE tok.k = "TI32Literal" -> Ok(p + 1, p, I32Literal(tok.value))
      [] tok.k = "TI64Literal" -> Ok(p + 1, p, I64Literal(tok.value))
      [] tok.k = "TF32Literal" -> Ok(p + 1, p, F32Literal(tok.value))
      [] tok.k = "TF64Literal" -> Ok(p + 1, p, F64Literal(tok.value))
      [] tok.k = "TBoolLiteral" -> Ok(p + 1, p, BoolLiteral(tok.value))
      [] tok.k = "TIdent" -> Ok(p + 1, p, Ident(Symbol(tok.name)))
      [] tok = TOpenParen ->
            Try(expr(toks, p + 1), LAMBDA e :
            IF Tok(toks, e.pos) # TCloseParen
            THEN Err(e.pos + 1, e.pos, "Expected ')'", NoToken)
            ELSE Ok(e.pos + 1, e.pos, e.val))
      [] tok = TOpenBracket ->
            Try(make_vector_while(toks, p + 1, <<>>), LAMBDA exprs :
            Try(consume(toks, exprs.pos, TCloseBracket), LAMBDA close :
            Ok(close.pos, close.hi, MakeVector(exprs.val))))
      [] tok = TOpenBrace ->
            Try(make_struct_while(toks, p + 1, <<>>), LAMBDA exprs :
            Try(consume(toks, exprs.pos, TCloseBrace), LAMBDA close :
            Ok(close.pos, close.hi, MakeStruct(exprs.val))))
      [] tok = TIf ->
            Try(keyword_form(toks, p + 1, 3), LAMBDA a :
            Ok(a.pos, a.hi, If(a.val[1], a.val[2], a.val[3])))
      [] tok = TFor ->
            Try(keyword_form(toks, p + 1, 3), LAMBDA a :
            Ok(a.pos, a.hi, For(a.val[1], a.val[2], a.val[3])))
      [] tok = TMerge ->
            Try(keyword_form(toks, p + 1, 2), LAMBDA a :
            Ok(a.pos, a.hi, Merge(a.val[1], a.val[2])))
      [] tok = TResult ->
            Try(keyword_form(toks, p + 1, 1), LAMBDA a :
            Ok(a.pos, a.hi, Res(a.val[1])))
      [] tok = TAppender ->
            IF Tok(toks, p + 1) = TOpenBracket
            THEN Try(consume(toks, p + 1, TOpenBracket), LAMBDA open :
                 Try(type_(toks, open.pos), LAMBDA elem_type :
                 Try(consume(toks, elem_type.pos, TCloseBracket), LAMBDA close :
                 Ok(close.pos, close.hi, WithTy(NewBuilder, Builder(Appender(elem_type.val)))))))
            ELSE Ok(p + 1, p + 1, WithTy(NewBuilder, Builder(Appender(Unknown))))
      [] OTHER -> Err(p + 1, p, "Expected expression but got '{}'", tok)

\* A let_expr whose value is read by sum_expr, as in the older front-end
\* (the variant the let-value property is tried against)
let_expr_sum_value(toks, p) ==
    Try(consume(toks, p, TLet), LAMBDA kw :
    Try(symbol(toks, kw.pos), LAMBDA name :
    Try(optional_type(toks, name.pos), LAMBDA ty :
    Try(consume(toks, ty.pos, TEqual), LAMBDA eq :
    Try(sum_expr(toks, eq.pos), LAMBDA value :
    Try(consume(toks, value.pos, TSemicolon), LAMBDA semi :
    Try(expr(toks, semi.pos), LAMBDA body :
    Ok(body.pos, body.hi, WithTy(Let(name.val, value.val, body.val), ty.val)))))))))

\* A let_expr whose value is a full expression (the faulty variant the
\* placement property is tried against)
let_expr_full_value(toks, p) ==
    Try(consume(toks, p, TLet), LAMBDA kw :
    Try(symbol(toks, kw.pos), LAMBDA name :
    Try(optional_type(toks, name.pos), LAMBDA ty :
    Try(consume(toks, ty.pos, TEqual), LAMBDA eq :
    Try(expr(toks, eq.pos), LAMBDA value :
    Try(consume(toks, value.pos, TSemicolon), LAMBDA semi :
    Try(expr(toks, semi.pos), LAMBDA body :
    Ok(body.pos, body.hi, WithTy(Let(name.val, value.val, body.val), ty.val)))))))))

\* A let_expr that attaches the annotation to the value (the faulty variant
\* the let property is tried against)
let_expr_typing_value(toks, p) ==
    Try(consume(toks, p, TLet), LAMBDA kw :
    Try(symbol(toks, kw.pos), LAMBDA name :
    Try(optional_type(toks, name.pos), LAMBDA ty :
    Try(consume(toks, ty.pos, TEqual), LAMBDA eq :
    Try(operator_expr(toks, eq.pos), LAMBDA value :
    Try(consume(toks, value.pos, TSemicolon), LAMBDA semi :
    Try(expr(toks, semi.pos), LAMBDA body :
    Ok(body.pos, body.hi, Let(name.val, WithTy(value.val, ty.val), body.val)))))))))

let_expr(toks, p) ==
    Try(consume(toks, p, TLet), LAMBDA kw :
    Try(symbol(toks, kw.pos), LAMBDA name :
    Try(optional_type(toks, name.pos), LAMBDA ty :
    Try(consume(toks, ty.pos, TEqual), LAMBDA eq :
    Try(operator_expr(toks, eq.pos), LAMBDA value :
    Try(consume(toks, value.pos, TSemicolon), LAMBDA semi :
    Try(expr(toks, semi.pos), LAMBDA body :
    Ok(body.pos, body.hi, WithTy(Let(name.val, value.val, body.val), ty.val)))))))))

lambda_params_while(toks, p, params) ==
    IF Tok(toks, p) # TBar
    THEN Try(symbol(toks, p), LAMBDA name :
         Try(optional_type(toks, name.pos), LAMBDA ty :
         IF Tok(toks, ty.pos) = TComma
         THEN lambda_params_while(toks, ty.pos + 1,
                                  Append(params, PartialParameter(name.val, ty.val)))
         ELSE IF Tok(toks, ty.pos) # TBar
         THEN Err(ty.pos, ty.pos, "Expected ',' or '|'", NoToken)
         ELSE lambda_params_while(toks, ty.pos,
                                  Append(params, PartialParameter(name.val, ty.val)))))
    ELSE Ok(p, p, params)

\* the parameter list: next() is `|` (parameters up to the closing `|`), or
\* `||` (none), or an error
lambda_params(toks, p) ==
    IF Tok(toks, p) = TBar
    THEN Try(lambda_params_while(toks, p + 1, <<>>), LAMBDA params :
         Try(consume(toks, params.pos, TBar), LAMBDA bar :
         Ok(bar.pos, bar.hi, params.val)))
    ELSE IF Tok(toks, p) # TLogicalOr
    THEN Err(p + 1, p, "Expected '|' or '||'", NoToken)
    ELSE Ok(p + 1, p, <<>>)

\* A lambda_expr whose body is an operator expression only (the faulty
\* variant the lambda property is tried against)
lambda_expr_operator_body(toks, p) ==
    Try(lambda_params(toks, p), LAMBDA params :
    Try(operator_expr(toks, params.pos), LAMBDA body :
    Ok(body.pos, body.hi, Lambda(params.val, body.val))))

lambda_expr(toks, p) ==
    Try(lambda_params(toks, p), LAMBDA params :
    Try(expr(toks, params.pos), LAMBDA body :
    Ok(body.pos, body.hi, Lambda(params.val, body.val))))

expr(toks, p) ==
    IF Tok(toks, p) = TLet
    THEN let_expr(toks, p)
    ELSE IF Tok(toks, p) = TBar \/ Tok(toks, p) = TLogicalOr
    THEN lambda_expr(toks, p)
    ELSE operator_expr(toks, p)

---------------------------------------------------------------------------
(* Macros and programs *)

RECURSIVE macro_params_while(_, _, _), macros_while(_, _, _)

macro_params_while(toks, p, params) ==
    IF Tok(toks, p) # TCloseParen
    THEN Try(symbol(toks, p), LAMBDA param :
         IF Tok(toks, param.pos) = TComma
         THEN macro_params_while(toks, param.pos + 1, Append(params, param.val))
         ELSE IF Tok(toks, param.pos) # TCloseParen
         THEN Err(param.pos, param.pos, "Expected ',' or ')'", NoToken)
         ELSE macro_params_while(toks, param.pos, Append(params, param.val)))
    ELSE Ok(p, p, params)

\* A macro_ that does without the `;` when it is missing (the faulty variant
\* the declaration-form property is tried against)
macro_lenient(toks, p) ==
    Try(consume(toks, p, TMacro), LAMBDA kw :
    Try(symbol(toks, kw.pos), LAMBDA name :
    Try(consume(toks, name.pos, TOpenParen), LAMBDA open :
    Try(macro_params_while(toks, open.pos, <<>>), LAMBDA params :
    Try(consume(toks, params.pos, TCloseParen), LAMBDA close :
    Try(consume(toks, close.pos, TEqual), LAMBDA eq :
    Try(expr(toks, eq.pos), LAMBDA body :
    IF Tok(toks, body.pos) = TSemicolon
    THEN Ok(body.pos + 1, body.pos, Macro(name.val, params.val, body.val))
    ELSE Ok(body.pos, body.pos, Macro(name.val, params.val, body.val)))))))))

macro_(toks, p) ==
    Try(consume(toks, p, TMacro), LAMBDA kw :
    Try(symbol(toks, kw.pos), LAMBDA name :
    Try(consume(toks, name.pos, TOpenParen), LAMBDA open :
    Try(macro_params_while(toks, open.pos, <<>>), LAMBDA params :
    Try(consume(toks, params.pos, TCloseParen), LAMBDA close :
    Try(consume(toks, close.pos, TEqual), LAMBDA eq :
    Try(expr(toks, eq.pos), LAMBDA body :
    Try(consume(toks, body.pos, TSemicolon), LAMBDA semi :
    Ok(semi.pos, semi.hi, Macro(name.val, params.val, body.val))))))))))

\* A macros that collects the declarations last first (the faulty variant the
\* program-structure property is tried against)
macros_while_prepending(toks, p, res) ==
    IF Tok(toks, p) = TMacro
    THEN Try(macro_(toks, p), LAMBDA m : macros_while(toks, m.pos, <<m.val>> \o res))
    ELSE Ok(p, p, res)

macros_while(toks, p, res) ==
    IF Tok(toks, p) = TMacro
    THEN Try(macro_(toks, p), LAMBDA m : macros_while(toks, m.pos, Append(res, m.val)))
    ELSE Ok(p, p, res)

macros(toks, p) == macros_while(toks, p, <<>>)

program(toks, p) ==
    Try(macros(toks, p), LAMBDA ms :
    Try(expr(toks, ms.pos), LAMBDA body :
    Ok(body.pos, body.hi, Program(ms.val, body.val))))

---------------------------------------------------------------------------
(* The four entry points.  Each returns the rule's own result (res) and what
   the caller gets (ret), with the cursor and the highest index read when the
   entry point returns: is_done() peeks unless position = len, and the error
   message peeks again at the same position. *)

Returned(toks, res, out) ==
    [res |-> res,
     ret |-> [ok |-> out.ok, val |-> out.val, err |-> out.err],
     pos |-> res.pos,
     hi  |-> IF res.ok /\ res.pos # Len(toks) THEN res.pos ELSE res.hi]

\* A parse_program that checks for trailing tokens whatever the rule returned
\* (the faulty variant the error-propagation property is tried against)
parse_program_end_masking(toks, res) ==
    IF ~is_done(toks, res.pos)
    THEN Returned(toks, res, Err(res.pos, res.pos, "Unexpected token: {}", Tok(toks, res.pos)))
    ELSE Returned(toks, res, res)

\* `if res.is_ok() && !parser.is_done() { return weld_err!(...) } res`
parse_program_end(toks, res) ==
    IF res.ok /\ ~is_done(toks, res.pos)
    THEN Returned(toks, res, Err(res.pos, res.pos, "Unexpected token: {}", Tok(toks, res.pos)))
    ELSE Returned(toks, res, res)

parse_program(toks) == parse_program_end(toks, program(toks, 0))

\* A parse_macros that returns what the rule returned (the faulty variant the
\* declarations-only property is tried against)
parse_macros_end_unchecked(toks, res) == Returned(toks, res, res)

parse_macros_end(toks, res) ==
    IF res.ok /\ ~is_done(toks, res.pos)
    THEN Returned(toks, res, Err(res.pos, res.pos, "Unexpected token: {}", Tok(toks, res.pos)))
    ELSE Returned(toks, res, res)

parse_macros(toks) == parse_macros_end(toks, macros(toks, 0))

parse_expr_end(toks, res) ==
    IF res.ok /\ ~is_done(toks, res.pos)
    THEN Returned(toks, res, Err(res.pos, res.pos, "Unexpected token: {}", Tok(toks, res.pos)))
    ELSE Returned(toks, res, res)

parse_expr(toks) == parse_expr_end(toks, expr(toks, 0))

parse_type_end(toks, res) ==
    IF res.ok /\ ~is_done(toks, res.pos)
    THEN Returned(toks, res, Err(res.pos, res.pos, "Unexpected token: {}", Tok(toks, res.pos)))
    ELSE Returned(toks, res, res)

parse_type(toks) == parse_type_end(toks, type_(toks, 0))

---------------------------------------------------------------------------
(* The older front-end, src/weld_ast/parser.rs: the same Parser object (peek,
   next, consume) over the tokens of its own tokenizer, in which type names
   are identifiers and a field index is an integer literal.  It has the
   operators + - * / only, no macros, and a Symbol is the name itself. *)

RECURSIVE weld_ast_expr(_, _), weld_ast_partial_type(_, _),
          weld_ast_partial_type_while(_, _, _), weld_ast_apply_params_while(_, _, _),
          weld_ast_apply_while(_, _, _), weld_ast_product_operands(_, _, _, _),
          weld_ast_sum_operands(_, _, _, _), weld_ast_make_vector_while(_, _, _),
          weld_ast_make_struct_while(_, _, _), weld_ast_lambda_params_while(_, _, _)

weld_ast_name(toks, p) ==
    IF Tok(toks, p).k = "TIdent"
    THEN Ok(p + 1, p, Tok(toks, p).name)
    ELSE Err(p + 1, p, "Expected identifier but got '{}'", Tok(toks, p))

weld_ast_partial_type_while(toks, p, types) ==
    IF Tok(toks, p) # TCloseBrace
    THEN Try(weld_ast_partial_type(toks, p), LAMBDA ty :
         IF Tok(toks, ty.pos) = TComma
         THEN weld_ast_partial_type_while(toks, ty.pos + 1, Append(types, ty.val))
         ELSE IF Tok(toks, ty.pos) # TCloseBrace
         THEN Err(ty.pos, ty.pos, "Expected ',' or '}'", NoToken)
         ELSE weld_ast_partial_type_while(toks, ty.pos, Append(types, ty.val)))
    ELSE Ok(p, p, types)

\* `[` T `]` after the name vec or appender
weld_ast_bracketed_type(toks, p) ==
    Try(consume(toks, p, TOpenBracket), LAMBDA open :
    Try(weld_ast_partial_type(toks, open.pos), LAMBDA elem_type :
    Try(consume(toks, elem_type.pos, TCloseBracket), LAMBDA close :
    Ok(close.pos, close.hi, elem_type.val))))

weld_ast_partial_type(toks, p) ==
    LET tok == Tok(toks, p) IN
    CASE tok.k = "TIdent" ->
            CASE tok.name = <<"i", "3", "2">> -> Ok(p + 1, p, Scalar("I32"))
              [] tok.name = <<"i", "6", "4">> -> Ok(p + 1, p, Scalar("I64"))
              [] tok.name = <<"f", "3", "2">> -> Ok(p + 1, p, Scalar("F32"))
              [] tok.name = <<"f", "6", "4">> -> Ok(p + 1, p, Scalar("F64"))
              [] tok.name = <<"b", "o", "o", "l">> -> Ok(p + 1, p, Scalar("Bool"))
              [] tok.name = <<"v", "e", "c">> ->
                    Try(weld_ast_bracketed_type(toks, p + 1), LAMBDA elem_type :
                    Ok(elem_type.pos, elem_type.hi, Vector(elem_type.val)))
              [] tok.name = <<"a", "p", "p", "e", "n", "d", "e", "r">> ->
                    Try(weld_ast_bracketed_type(toks, p + 1), LAMBDA elem_type :
                    Ok(elem_type.pos, elem_type.hi, Builder(Appender(elem_type.val))))
              [] OTHER -> Err(p + 1, p, "Expected type but got '{}'", tok)
      [] tok = TOpenBrace ->
            Try(weld_ast_partial_type_while(toks, p + 1, <<>>), LAMBDA types :
            Try(consume(toks, types.pos, TCloseBrace), LAMBDA close :
            Ok(close.pos, close.hi, Struct(types.val))))
      [] tok = TQuestion -> Ok(p + 1, p, Unknown)
      [] OTHER -> Err(p + 1, p, "Expected type but got '{}'", tok)

weld_ast_optional_type(toks, p) ==
    IF Tok(toks, p) = TColon
    THEN Try(consume(toks, p, TColon), LAMBDA colon : weld_ast_partial_type(toks, colon.pos))
    ELSE Ok(p, p, Unknown)

weld_ast_make_vector_while(toks, p, exprs) ==
    IF Tok(toks, p) # TCloseBracket
    THEN Try(weld_ast_expr(toks, p), LAMBDA e :
         IF Tok(toks, e.pos) = TComma
         THEN weld_ast_make_vector_while(toks, e.pos + 1, Append(exprs, e.val))
         ELSE IF Tok(toks, e.pos) # TCloseBracket
         THEN Err(e.pos, e.pos, "Expected ',' or ']'", NoToken)
         ELSE weld_ast_make_vector_while(toks, e.pos, Append(exprs, e.val)))
    ELSE Ok(p, p, exprs)

weld_ast_make_struct_while(toks, p, exprs) ==
    IF Tok(toks, p) # TCloseBrace
    THEN Try(weld_ast_expr(toks, p), LAMBDA e :
         IF Tok(toks, e.pos) = TComma
         THEN weld_ast_make_struct_while(toks, e.pos + 1, Append(exprs, e.val))
         ELSE IF Tok(toks, e.pos) # TCloseBrace
         THEN Err(e.pos, e.pos, "Expected ',' or '}'", NoToken)
         ELSE weld_ast_make_struct_while(toks, e.pos, Append(exprs, e.val)))
    ELSE Ok(p, p, exprs)

weld_ast_leaf_expr(toks, p) ==
    LET tok == Tok(toks, p) IN
    CASE tok.k = "TI32Literal" -> Ok(p + 1, p, I32Literal(tok.value))
      [] tok.k = "TBoolLiteral" -> Ok(p + 1, p, BoolLiteral(tok.value))
      [] tok.k = "TIdent" -> Ok(p + 1, p, Ident(tok.name))
      [] tok = TOpenParen ->
            Try(weld_ast_expr(toks, p + 1), LAMBDA e :
            IF Tok(toks, e.pos) # TCloseParen
            THEN Err(e.pos + 1, e.pos, "Expected ')'", NoToken)
            ELSE Ok(e.pos + 1, e.pos, e.val))
      [] tok = TOpenBracket ->
            Try(weld_ast_make_vector_while(toks, p + 1, <<>>), LAMBDA exprs :
            Try(consume(toks, exprs.pos, TCloseBracket), LAMBDA close :
            Ok(close.pos, close.hi, MakeVector(exprs.val))))
      [] tok = TOpenBrace ->
            Try(weld_ast_make_struct_while(toks, p + 1, <<>>), LAMBDA exprs :
            Try(consume(toks, exprs.pos, TCloseBrace), LAMBDA close :
            Ok(close.pos, close.hi, MakeStruct(exprs.val))))
      [] OTHER -> Err(p + 1, p, "Expected expression but got '{}'", tok)

weld_ast_apply_params_while(toks, p, params) ==
    IF Tok(toks, p) # TCloseParen
    THEN Try(weld_ast_expr(toks, p), LAMBDA param :
         IF Tok(toks, param.pos) = TComma
         THEN weld_ast_apply_params_while(toks, param.pos + 1, Append(params, param.val))
         ELSE IF Tok(toks, param.pos) # TCloseParen
         THEN Err(param.pos, param.pos, "Expected ',' or ')'", NoToken)
         ELSE weld_ast_apply_params_while(toks, param.pos, Append(params, param.val)))
    ELSE Ok(p, p, params)

\* the loop of apply_expr: after a `.` the index is an i32 literal >= 0,
\* `v as u32`
weld_ast_apply_while(toks, p, e) ==
    IF Tok(toks, p) = TDot \/ Tok(toks, p) = TOpenParen
    THEN IF Tok(toks, p) = TDot
         THEN LET tok == Tok(toks, p + 1) IN
              IF tok.k = "TI32Literal" /\ tok.value >= 0
              THEN weld_ast_apply_while(toks, p + 2,
                       GetField(e, U32(tok.value \div Half, tok.value % Half)))
              ELSE Err(p + 2, p + 1, "Expected field index but got '{}'", tok)
         ELSE Try(weld_ast_apply_params_while(toks, p + 1, <<>>), LAMBDA params :
              Try(consume(toks, params.pos, TCloseParen), LAMBDA close :
              weld_ast_apply_while(toks, close.pos, Apply(e, params.val))))
    ELSE Ok(p, p, e)

weld_ast_apply_expr(toks, p) ==
    Try(weld_ast_leaf_expr(toks, p), LAMBDA e : weld_ast_apply_while(toks, e.pos, e.val))

\* `expr.ty = ty` with the optional type, Unknown when there is none
weld_ast_ascribe_expr(toks, p) ==
    Try(weld_ast_apply_expr(toks, p), LAMBDA e :
    Try(weld_ast_optional_type(toks, e.pos), LAMBDA ty :
    Ok(ty.pos, ty.hi, WithTy(e.val, ty.val))))

weld_ast_product_operands(toks, p, res, op) ==
    Try(weld_ast_ascribe_expr(toks, p), LAMBDA right :
    IF Tok(toks, right.pos) = TTimes \/ Tok(toks, right.pos) = TDivide
    THEN weld_ast_product_operands(toks, right.pos + 1, Folded(op, res, right.val),
                                   IF Tok(toks, right.pos) = TTimes THEN "Multiply"
                                   ELSE "Divide")
    ELSE Ok(right.pos, right.pos, Folded(op, res, right.val)))

weld_ast_product_expr(toks, p) == weld_ast_product_operands(toks, p, NoExpr, NoOp)

weld_ast_sum_operands(toks, p, res, op) ==
    Try(weld_ast_product_expr(toks, p), LAMBDA right :
    IF Tok(toks, right.pos) = TPlus \/ Tok(toks, right.pos) = TMinus
    THEN weld_ast_sum_operands(toks, right.pos + 1, Folded(op, res, right.val),
                               IF Tok(toks, right.pos) = TPlus THEN "Add" ELSE "Subtract")
    ELSE Ok(right.pos, right.pos, Folded(op, res, right.val)))

weld_ast_sum_expr(toks, p) == weld_ast_sum_operands(toks, p, NoExpr, NoOp)

weld_ast_let_expr(toks, p) ==
    Try(consume(toks, p, TLet), LAMBDA kw :
    Try(weld_ast_name(toks, kw.pos), LAMBDA name :
    Try(weld_ast_optional_type(toks, name.pos), LAMBDA ty :
    Try(consume(toks, ty.pos, TEqual), LAMBDA eq :
    Try(weld_ast_sum_expr(toks, eq.pos), LAMBDA value :
    Try(consume(toks, value.pos, TSemicolon), LAMBDA semi :
    Try(weld_ast_expr(toks, semi.pos), LAMBDA body :
    Ok(body.pos, body.hi, WithTy(Let(name.val, value.val, body.val), ty.val)))))))))

weld_ast_lambda_params_while(toks, p, params) ==
    IF Tok(toks, p) # TBar
    THEN Try(weld_ast_name(toks, p), LAMBDA name :
         Try(weld_ast_optional_type(toks, name.pos), LAMBDA ty :
         IF Tok(toks, ty.pos) = TComma
         THEN weld_ast_lambda_params_while(toks, ty.pos + 1,
                                           Append(params, PartialParameter(name.val, ty.val)))
         ELSE IF Tok(toks, ty.pos) # TBar
         THEN Err(ty.pos, ty.pos, "Expected ',' or '|'", NoToken)
         ELSE weld_ast_lambda_params_while(toks, ty.pos,
                                           Append(params, PartialParameter(name.val, ty.val)))))
    ELSE Ok(p, p, params)

weld_ast_lambda_expr(toks, p) ==
    Try(consume(toks, p, TBar), LAMBDA open :
    Try(weld_ast_lambda_params_while(toks, open.pos, <<>>), LAMBDA params :
    Try(consume(toks, params.pos, TBar), LAMBDA bar :
    Try(weld_ast_expr(toks, bar.pos), LAMBDA body :
    Ok(body.pos, body.hi, Lambda(params.val, body.val))))))

weld_ast_expr(toks, p) ==
    IF Tok(toks, p) = TLet THEN weld_ast_let_expr(toks, p)
    ELSE IF Tok(toks, p) = TBar THEN weld_ast_lambda_expr(toks, p)
    ELSE weld_ast_sum_expr(toks, p)

\* what an entry point hands back: the rule's result as it is
weld_ast_returned(toks, res) ==
    [res |-> res,
     ret |-> [ok |-> res.ok, val |-> res.val, err |-> res.err],
     pos |-> res.pos,
     hi  |-> res.hi]

\* `Parser::new(&tokens).expr().map(|b| *b)`: what the rule returned
weld_ast_parse_expr(toks) == weld_ast_returned(toks, weld_ast_expr(toks, 0))

\* `Parser::new(&tokens).partial_type()`
weld_ast_parse_type(toks) == weld_ast_returned(toks, weld_ast_partial_type(toks, 0))

---------------------------------------------------------------------------
(* pretty_print (print_type, print_expr), as the tests' expectations and the
   syntax fix it.  Text is a sequence of one-character strings.  The tests pin
   the forms of I32Literal, Ident, BinOp, Let, Lambda, GetField, Apply,
   MakeVector, NewBuilder and of the types; the other forms are printed in the
   syntax leaf_expr reads them in. *)

RECURSIVE Dec(_)
Dec(n) == IF n < 10 THEN <<Digits[n + 1]>> ELSE Dec(n \div 10) \o <<Digits[(n % 10) + 1]>>

\* the decimal digits of a u32
RECURSIVE DecU32(_)
DecU32(n) ==
    LET rest == (n.hi % 10) * Half + n.lo IN
    IF n.hi = 0 /\ n.lo < 10 THEN <<Digits[n.lo + 1]>>
    ELSE DecU32(U32(n.hi \div 10, rest \div 10)) \o <<Digits[(rest % 10) + 1]>>

\* the texts ts[1], ts[2], ... with `sep` between them
RECURSIVE Join(_, _)
Join(ts, sep) ==
    IF Len(ts) = 0 THEN <<>>
    ELSE IF Len(ts) = 1 THEN ts[1]
    ELSE Join(SubSeq(ts, 1, Len(ts) - 1), sep) \o sep \o ts[Len(ts)]

RECURSIVE print_type(_)
print_type(ty) ==
    CASE ty.t = "Unknown" -> <<"?">>
      [] ty.t = "Scalar" ->
            (CASE ty.scalar = "I32" -> <<"i", "3", "2">>
               [] ty.scalar = "I64" -> <<"i", "6", "4">>
               [] ty.scalar = "F32" -> <<"f", "3", "2">>
               [] ty.scalar = "F64" -> <<"f", "6", "4">>
               [] OTHER -> <<"b", "o", "o", "l">>)
      [] ty.t = "Vector" -> <<"v", "e", "c", "[">> \o print_type(ty.elem) \o <<"]">>
      [] ty.t = "Struct" ->
            <<"{">> \o Join([k \in 1..Len(ty.fields) |-> print_type(ty.fields[k])], <<",">>)
                \o <<"}">>
      [] OTHER ->
            <<"a", "p", "p", "e", "n", "d", "e", "r", "[">> \o print_type(ty.builder.elem)
                \o <<"]">>

\* the operator of a BinOpKind
print_op(kind) ==
    CASE kind = "Add" -> <<"+">>
      [] kind = "Subtract" -> <<"-">>
      [] kind = "Multiply" -> <<"*">>
      [] kind = "Divide" -> <<"/">>
      [] kind = "Modulo" -> <<"%">>
      [] kind = "Equal" -> <<"=", "=">>
      [] kind = "NotEqual" -> <<"!", "=">>
      [] kind = "LessThan" -> <<"<">>
      [] kind = "LessThanOrEqual" -> <<"<", "=">>
      [] kind = "GreaterThan" -> <<">">>
      [] kind = "GreaterThanOrEqual" -> <<">", "=">>
      [] kind = "LogicalAnd" -> <<"&", "&">>
      [] kind = "LogicalOr" -> <<"|", "|">>
      [] kind = "BitwiseAnd" -> <<"&">>
      [] kind = "BitwiseOr" -> <<"|">>
      [] OTHER -> <<"^">>

\* print_expr: the types attached to the nodes are not printed
\* ('let a: vec[i32] = [2, 3]; a' prints "(let a=([2,3]);a)")
RECURSIVE print_expr(_)
print_expr(e) ==
    CASE e.kind = "I32Literal" -> Dec(e.value)
      [] e.kind = "I64Literal" -> Dec(e.value) \o <<"L">>
      [] e.kind = "F32Literal" -> Dec(e.value) \o <<".", "0", "F">>
      [] e.kind = "F64Literal" -> Dec(e.value) \o <<".", "0">>
      [] e.kind = "BoolLiteral" ->
            IF e.value THEN <<"t", "r", "u", "e">> ELSE <<"f", "a", "l", "s", "e">>
      [] e.kind = "Ident" -> e.symbol.name
      [] e.kind = "BinOp" ->
            <<"(">> \o print_expr(e.left) \o print_op(e.op) \o print_expr(e.right) \o <<")">>
      [] e.kind = "Let" ->
            <<"(", "l", "e", "t", " ">> \o e.symbol.name \o <<"=", "(">> \o print_expr(e.value)
                \o <<")", ";">> \o print_expr(e.body) \o <<")">>
      [] e.kind = "Lambda" ->
            <<"|">> \o Join([k \in 1..Len(e.params) |-> e.params[k].name.name], <<",">>)
                \o <<"|">> \o print_expr(e.body)
      [] e.kind = "GetField" -> print_expr(e.expr) \o <<".", "$">> \o DecU32(e.index)
      [] e.kind = "Apply" ->
            <<"(">> \o print_expr(e.func) \o <<")", "(">>
                \o Join([k \in 1..Len(e.params) |-> print_expr(e.params[k])], <<",">>)
                \o <<")">>
      [] e.kind = "MakeVector" ->
            <<"[">> \o Join([k \in 1..Len(e.elems) |-> print_expr(e.elems[k])], <<",">>)
                \o <<"]">>
      [] e.kind = "MakeStruct" ->
            <<"{">> \o Join([k \in 1..Len(e.elems) |-> print_expr(e.elems[k])], <<",">>)
                \o <<"}">>
      [] e.kind = "If" ->
            <<"i", "f", "(">> \o print_expr(e.cond) \o <<",">> \o print_expr(e.on_true)
                \o <<",">> \o print_expr(e.on_false) \o <<")">>
      [] e.kind = "For" ->
            <<"f", "o", "r", "(">> \o print_expr(e.data) \o <<",">> \o print_expr(e.builders)
                \o <<",">> \o print_expr(e.func) \o <<")">>
      [] e.kind = "Merge" ->
            <<"m", "e", "r", "g", "e", "(">> \o print_expr(e.builder) \o <<",">>
                \o print_expr(e.value) \o <<")">>
      [] e.kind = "Res" ->
            <<"r", "e", "s", "u", "l", "t", "(">> \o print_expr(e.builder) \o <<")">>
      [] OTHER -> print_type(e.ty)

---------------------------------------------------------------------------
(* tokenize: text to tokens, ending with TEndOfInput.  Words are keywords or
   identifiers [A-Za-z_$][A-Za-z0-9_$]*, numbers are digits with an optional
   fraction and an optional suffix (L, f, F), operators are matched by maximal
   munch, blanks are skipped; another character is an error. *)

IdentStart ==
    { "a", "b", "c", "d", "e", "f", "g", "h", "i", "j", "k", "l", "m", "n", "o", "p", "q",
      "r", "s", "t", "u", "v", "w", "x", "y", "z", "L", "F", "_", "$" }
IsIdentChar(c) == c \in IdentStart \/ IsDigit(c)

\* the index after the word / the digits that start at i
RECURSIVE WordEnd(_, _)
WordEnd(text, i) ==
    IF i <= Len(text) /\ IsIdentChar(text[i]) THEN WordEnd(text, i + 1) ELSE i

RECURSIVE DigitsEnd(_, _)
DigitsEnd(text, i) ==
    IF i <= Len(text) /\ IsDigit(text[i]) THEN DigitsEnd(text, i + 1) ELSE i

RECURSIVE Value(_)
Value(digits) ==
    IF Len(digits) = 0 THEN 0
    ELSE Value(SubSeq(digits, 1, Len(digits) - 1)) * 10 + DigitValue(digits[Len(digits)])

Word(word) ==
    CASE word = <<"m", "a", "c", "r", "o">> -> TMacro
      [] word = <<"l", "e", "t">> -> TLet
      [] word = <<"i", "f">> -> TIf
      [] word = <<"f", "o", "r">> -> TFor
      [] word = <<"m", "e", "r", "g", "e">> -> TMerge
      [] word = <<"r", "e", "s", "u", "l", "t">> -> TResult
      [] word = <<"a", "p", "p", "e", "n", "d", "e", "r">> -> TAppender
      [] word = <<"v", "e", "c">> -> TVec
      [] word = <<"i", "3", "2">> -> TI32
      [] word = <<"i", "6", "4">> -> TI64
      [] word = <<"f", "3", "2">> -> TF32
      [] word = <<"f", "6", "4">> -> TF64
      [] word = <<"b", "o", "o", "l">> -> TBool
      [] word = <<"t", "r", "u", "e">> -> TBoolLiteral(TRUE)
      [] word = <<"f", "a", "l", "s", "e">> -> TBoolLiteral(FALSE)
      [] OTHER -> TIdent(word)

TwoChar(a, b) ==
    CASE a = "=" /\ b = "=" -> TEqualEqual
      [] a = "!" /\ b = "=" -> TNotEqual
      [] a = "<" /\ b = "=" -> TLessThanOrEqual
      [] a = ">" /\ b = "=" -> TGreaterThanOrEqual
      [] a = "&" /\ b = "&" -> TLogicalAnd
      [] a = "|" /\ b = "|" -> TLogicalOr
      [] OTHER -> NoToken

OneChar(a) ==
    CASE a = "+" -> TPlus
      [] a = "-" -> TMinus
      [] a = "*" -> TTimes
      [] a = "/" -> TDivide
      [] a = "%" -> TModulo
      [] a = "(" -> TOpenParen
      [] a = ")" -> TCloseParen
      [] a = "[" -> TOpenBracket
      [] a = "]" -> TCloseBracket
      [] a = "{" -> TOpenBrace
      [] a = "}" -> TCloseBrace
      [] a = "," -> TComma
      [] a = ";" -> TSemicolon
      [] a = ":" -> TColon
      [] a = "." -> TDot
      [] a = "|" -> TBar
      [] a = "&" -> TBitwiseAnd
      [] a = "^" -> TXor
      [] a = "?" -> TQuestion
      [] a = "<" -> TLessThan
      [] a = ">" -> TGreaterThan
      [] a = "=" -> TEqual
      [] OTHER -> NoToken

CharAt(text, i) == IF i <= Len(text) THEN text[i] ELSE ""

\* the number that starts at i: [token, index after it], NoToken if malformed
Number(text, i) ==
    LET j == DigitsEnd(text, i)
        whole == Value(SubSeq(text, i, j - 1))
        k == IF CharAt(text, j) = "." /\ IsDigit(CharAt(text, j + 1))
             THEN DigitsEnd(text, j + 1) ELSE j
        suffix == CharAt(text, k)
    IN  IF k > j
        THEN IF suffix = "f" \/ suffix = "F"
             THEN IF IsIdentChar(CharAt(text, k + 1)) THEN <<NoToken, k>>
                  ELSE <<TF32Literal(whole), k + 1>>
             ELSE IF IsIdentChar(suffix) THEN <<NoToken, k>>
             ELSE <<TF64Literal(whole), k>>
        ELSE IF suffix = "L"
             THEN IF IsIdentChar(CharAt(text, k + 1)) THEN <<NoToken, k>>
                  ELSE <<TI64Literal(whole), k + 1>>
        ELSE IF suffix = "f" \/ suffix = "F"
             THEN IF IsIdentChar(CharAt(text, k + 1)) THEN <<NoToken, k>>
                  ELSE <<TF32Literal(whole), k + 1>>
        ELSE IF IsIdentChar(suffix) THEN <<NoToken, k>>
        ELSE <<TI32Literal(whole), k>>

RECURSIVE tokenize_from(_, _, _)
tokenize_from(text, i, out) ==
    IF i > Len(text) THEN [ok |-> TRUE, val |-> Append(out, TEndOfInput)]
    ELSE IF text[i] = " " THEN tokenize_from(text, i + 1, out)
    ELSE IF text[i] \in IdentStart
    THEN tokenize_from(text, WordEnd(text, i),
                       Append(out, Word(SubSeq(text, i, WordEnd(text, i) - 1))))
    ELSE IF IsDigit(text[i])
    THEN IF Number(text, i)[1] = NoToken THEN [ok |-> FALSE, val |-> <<>>]
         ELSE tokenize_from(text, Number(text, i)[2], Append(out, Number(text, i)[1]))
    ELSE IF TwoChar(text[i], CharAt(text, i + 1)) # NoToken
    THEN tokenize_from(text, i + 2, Append(out, TwoChar(text[i], CharAt(text, i + 1))))
    ELSE IF OneChar(text[i]) # NoToken
    THEN tokenize_from(text, i + 1, Append(out, OneChar(text[i])))
    ELSE [ok |-> FALSE, val |-> <<>>]

tokenize(text) == tokenize_from(text, 1, <<>>)

\* parse_expr on text: `let tokens = try!(tokenize(input))`, then the parser
parse_expr_text(text) ==
    IF tokenize(text).ok
    THEN parse_expr(tokenize(text).val).ret
    ELSE [ok |-> FALSE, val |-> Unit, err |-> WeldError("tokenize", NoToken)]

---------------------------------------------------------------------------
(* Inputs: token slices as tokenize returns them, each ending with the one
   TEndOfInput *)

Id(c) == TIdent(<<c>>)
Field(c) == TIdent(<<"$", c>>)
Eoi(s) == Append(s, TEndOfInput)

\* The inputs of the tests basic_parsing, operator_precedence and
\* read_to_end_of_input, tokenized by hand
TestExprs ==
    { <<TI32Literal(10), TMinus, TI32Literal(2), TMinus, TI32Literal(3), TPlus, TI32Literal(1)>>,
      <<TI32Literal(10), TTimes, TI32Literal(2), TMinus, TI32Literal(4), TMinus,
        TI32Literal(3), TDivide, TI32Literal(1)>>,
      <<TOpenBracket, TI32Literal(1), TComma, TI32Literal(2), TPlus, TI32Literal(3), TComma,
        TI32Literal(2), TCloseBracket>>,
      <<TLet, Id("a"), TEqual, TI32Literal(3), TPlus, TI32Literal(2), TSemicolon,
        TLet, Id("b"), TEqual, TOpenParen, TLet, Id("c"), TEqual, Id("a"), TSemicolon, Id("c"),
        TCloseParen, TSemicolon, Id("b")>>,
      <<TLet, Id("a"), TColon, TVec, TOpenBracket, TI32, TCloseBracket, TEqual,
        TOpenBracket, TI32Literal(2), TComma, TI32Literal(3), TCloseBracket, TSemicolon, Id("a")>>,
      <<TBar, Id("a"), TComma, Id("b"), TColon, TI32, TBar, Id("a"), TPlus, Id("b")>>,
      <<TLogicalOr, Id("a"), TLogicalOr, Id("b")>>,
      <<Id("a"), TDot, Field("0"), TDot, Field("1")>>,
      <<Id("a"), TOpenParen, TI32Literal(0), TComma, TI32Literal(1), TCloseParen, TDot, Field("0")>>,
      <<Id("a"), TDot, Field("0"), TOpenParen, TI32Literal(0), TComma, TI32Literal(1),
        TCloseParen, TDot, Field("1"), TOpenParen, TCloseParen>>,
      <<Id("a"), TGreaterThan, Id("b"), TEqualEqual, Id("c")>>,
      <<Id("a"), TGreaterThan, Id("b"), TGreaterThan, Id("c")>>,
      <<Id("a"), TEqualEqual, Id("b"), TEqualEqual, Id("c")>>,
      <<TAppender, TOpenBracket, TQuestion, TCloseBracket>>,
      <<TAppender, TOpenBracket, TI32, TCloseBracket>>,
      <<Id("a"), TColon, TI32, TPlus, Id("b")>>,
      <<TI32Literal(10), TTimes, TTimes, TI32Literal(2)>>,
      <<Id("a"), TMinus, Id("b"), TMinus, Id("c"), TMinus, Id("d")>>,
      <<Id("a"), TLogicalOr, Id("b"), TLogicalAnd, Id("c"), TBar, Id("d"), TXor, Id("e"),
        TBitwiseAnd, Id("f"), TEqualEqual, Id("g"), TGreaterThan, Id("h"), TPlus, Id("i"),
        TTimes, Id("j")>>,
      <<Id("a"), TTimes, Id("b"), TPlus, Id("c"), TGreaterThan, Id("d"), TEqualEqual, Id("e"),
        TBitwiseAnd, Id("f"), TXor, Id("g"), TBar, Id("h"), TLogicalAnd, Id("i"),
        TLogicalOr, Id("j")>>,
      <<Id("a"), TDivide, Id("b"), TMinus, Id("c"), TLessThanOrEqual, Id("d"), TNotEqual, Id("e"),
        TBitwiseAnd, Id("f"), TXor, Id("g"), TBar, Id("h"), TLogicalAnd, Id("i"),
        TLogicalOr, Id("j")>>,
      <<Id("a"), TModulo, Id("b"), TMinus, Id("c"), TGreaterThanOrEqual, Id("d"), TNotEqual,
        Id("e"), TBitwiseAnd, Id("f"), TXor, Id("g"), TBar, Id("h"), TLogicalAnd, Id("i"),
        TLogicalOr, Id("j")>>,
      <<Id("a"), TPlus, Id("b")>>,
      <<Id("a"), TPlus, Id("b"), TMacro>>,
      <<TVec, TOpenBracket, TI32, TCloseBracket, TI32Literal(1)>> }

TestPrograms ==
    { <<TMacro, Id("a"), TOpenParen, Id("x"), TCloseParen, TEqual, Id("x"), TPlus, Id("x"),
        TSemicolon, TMacro, Id("b"), TOpenParen, TCloseParen, TEqual, TI32Literal(5),
        TSemicolon, Id("a"), TOpenParen, Id("b"), TCloseParen>>,
      <<TMacro, Id("a"), TOpenParen, TCloseParen, TEqual, Id("b"), TSemicolon,
        Id("a"), TOpenParen, TCloseParen, TPlus, Id("b")>>,
      <<TMacro, Id("a"), TOpenParen, TCloseParen, TEqual, Id("b"), TSemicolon,
        Id("a"), TOpenParen, TCloseParen, TPlus, Id("b"), TSemicolon>> }

TestTypes ==
    { <<TOpenBrace, TI32, TComma, TVec, TOpenBracket, TVec, TOpenBracket, TQuestion,
        TCloseBracket, TCloseBracket, TComma, TQuestion, TCloseBrace>>,
      <<TOpenBrace, TCloseBrace>>,
      <<TVec, TOpenBracket, TI32, TCloseBracket>> }

Tests == TestExprs \cup TestPrograms \cup TestTypes

\* Field accesses: a.b  a.b.$0  a.$  a.$x  a.$12  a.5  a.
FieldExprs ==
    { <<Id("a"), TDot, Id("b")>>,
      <<Id("a"), TDot, Id("b"), TDot, Field("0")>>,
      <<Id("a"), TDot, TIdent(<<"$">>)>>,
      <<Id("a"), TDot, TIdent(<<"$", "x">>)>>,
      <<Id("a"), TDot, TIdent(<<"$", "1", "2">>)>>,
      <<Id("a"), TDot, TI32Literal(5)>>,
      <<Id("a"), TDot>> }

\* Every token variant once (one identifier, one field index, one literal of
\* each kind)
SimpleTokens ==
    { TMacro, TLet, TIf, TFor, TMerge, TResult, TAppender, TVec, TI32, TI64, TF32, TF64,
      TBool, TOpenParen, TCloseParen, TOpenBracket, TCloseBracket, TOpenBrace, TCloseBrace,
      TComma, TSemicolon, TColon, TDot, TEqual, TQuestion, TBar, TLogicalOr, TLogicalAnd,
      TBitwiseAnd, TXor, TEqualEqual, TNotEqual, TLessThan, TLessThanOrEqual, TGreaterThan,
      TGreaterThanOrEqual, TPlus, TMinus, TTimes, TDivide, TModulo }
AllTokens ==
    SimpleTokens \cup { Id("a"), Field("0"), TI32Literal(1), TI64Literal(1), TF32Literal(1),
                        TF64Literal(1), TBoolLiteral(TRUE) }

\* The sixteen binary operator tokens
BinOpTokens ==
    { TLogicalOr, TLogicalAnd, TBar, TXor, TBitwiseAnd, TEqualEqual, TNotEqual, TLessThan,
      TLessThanOrEqual, TGreaterThan, TGreaterThanOrEqual, TPlus, TMinus, TTimes, TDivide,
      TModulo }

Letters == <<"a", "b", "c", "d", "e", "f", "g", "h", "i", "j">>

\* a op1 b op2 c ...: the operands are the letters in order, ops the operators
RECURSIVE Flat(_)
Flat(ops) ==
    IF Len(ops) = 0 THEN <<Id(Letters[1])>>
    ELSE Flat(SubSeq(ops, 1, Len(ops) - 1)) \o <<ops[Len(ops)], Id(Letters[Len(ops) + 1])>>

\* Flat operator expressions have at most MaxOps operators
MaxOps == 3

\* s with its i-th token left out / replaced by t (s itself when i > Len(s))
Without(s, i) == SubSeq(s, 1, i - 1) \o SubSeq(s, i + 1, Len(s))
Replaced(s, i, t) ==
    IF i > Len(s) THEN s ELSE SubSeq(s, 1, i - 1) \o <<t>> \o SubSeq(s, i + 1, Len(s))

\* X inside parentheses, a vector literal, a struct literal, an argument list
\* and as the value of a let
Wrappers == {"paren", "vector", "struct", "args", "let"}
Wrapped(w, s) ==
    CASE w = "paren" -> <<TOpenParen>> \o s \o <<TCloseParen>>
      [] w = "vector" -> <<TOpenBracket>> \o s \o <<TCloseBracket>>
      [] w = "struct" -> <<TOpenBrace>> \o s \o <<TCloseBrace>>
      [] w = "args" -> <<Id("f"), TOpenParen>> \o s \o <<TCloseParen>>
      [] OTHER -> <<TLet, Id("v"), TEqual>> \o s \o <<TSemicolon, Id("v")>>

\* Wrapped operator expressions have at most MaxWrapOps operators
MaxWrapOps == 2

Var(c) == Ident(Symbol(<<c>>))

\* Macro declarations, each with the Macro it declares:
\*   macro a(x) = x + x;        macro b() = 5;
\*   macro c(x, y,) = |z| x;    macro d(x, y) = let t = x; t;
Decls ==
    << [toks |-> <<TMacro, Id("a"), TOpenParen, Id("x"), TCloseParen, TEqual,
                   Id("x"), TPlus, Id("x"), TSemicolon>>,
        macro |-> Macro(Symbol(<<"a">>), <<Symbol(<<"x">>)>>,
                        BinOp("Add", Var("x"), Var("x")))],
       [toks |-> <<TMacro, Id("b"), TOpenParen, TCloseParen, TEqual, TI32Literal(5),
                   TSemicolon>>,
        macro |-> Macro(Symbol(<<"b">>), <<>>, I32Literal(5))],
       [toks |-> <<TMacro, Id("c"), TOpenParen, Id("x"), TComma, Id("y"), TComma, TCloseParen,
                   TEqual, TBar, Id("z"), TBar, Id("x"), TSemicolon>>,
        macro |-> Macro(Symbol(<<"c">>), <<Symbol(<<"x">>), Symbol(<<"y">>)>>,
                        Lambda(<<PartialParameter(Symbol(<<"z">>), Unknown)>>, Var("x")))],
       [toks |-> <<TMacro, Id("d"), TOpenParen, Id("x"), TComma, Id("y"), TCloseParen, TEqual,
                   TLet, Id("t"), TEqual, Id("x"), TSemicolon, Id("t"), TSemicolon>>,
        macro |-> Macro(Symbol(<<"d">>), <<Symbol(<<"x">>), Symbol(<<"y">>)>>,
                        Let(Symbol(<<"t">>), Var("x"), Var("t")))] >>

\* Program bodies, each with its expression: none, a(b), x + y
Bodies ==
    << [toks |-> <<>>, expr |-> Unit],
       [toks |-> <<Id("a"), TOpenParen, Id("b"), TCloseParen>>,
        expr |-> Apply(Var("a"), <<Var("b")>>)],
       [toks |-> <<Id("x"), TPlus, Id("y")>>,
        expr |-> BinOp("Add", Var("x"), Var("y"))] >>

\* What follows the body: nothing, a stray `;`, one more declaration
Tails == << <<>>, <<TSemicolon>>, Decls[2].toks >>

\* The declarations numbered ds[1], ..., ds[Len(ds)], one after the other
RECURSIVE DeclToks(_)
DeclToks(ds) ==
    IF Len(ds) = 0 THEN <<>>
    ELSE DeclToks(SubSeq(ds, 1, Len(ds) - 1)) \o Decls[ds[Len(ds)]].toks

\* Composed programs have at most MaxMacros declarations before the body
MaxMacros == 2

\* Types, each written as the tokens of its syntax.  A type of depth d is a
\* scalar, `?`, a struct of at most MaxFields scalars or `?`, or vec[T],
\* appender[T], {T}, {?, T}, {T, i32} with T of depth d - 1.
ScalarKinds == {"I32", "I64", "F32", "F64", "Bool"}
BaseTypes == {Unknown} \cup { Scalar(kind) : kind \in ScalarKinds }

MaxFields == 2
MaxTypeDepth == 2

FlatStructs == UNION { { Struct(fs) : fs \in [1..n -> BaseTypes] } : n \in 0..MaxFields }

RECURSIVE Types(_)
Types(d) ==
    IF d = 0 THEN BaseTypes
    ELSE BaseTypes \cup FlatStructs
            \cup UNION { { Vector(ty), Builder(Appender(ty)), Struct(<<ty>>),
                           Struct(<<Unknown, ty>>), Struct(<<ty, Scalar("I32")>>) } :
                         ty \in Types(d - 1) }

ScalarToken(kind) ==
    CASE kind = "I32" -> TI32
      [] kind = "I64" -> TI64
      [] kind = "F32" -> TF32
      [] kind = "F64" -> TF64
      [] OTHER -> TBool

RECURSIVE TypeToks(_), FieldToks(_)
TypeToks(ty) ==
    CASE ty.t = "Unknown" -> <<TQuestion>>
      [] ty.t = "Scalar" -> <<ScalarToken(ty.scalar)>>
      [] ty.t = "Vector" -> <<TVec, TOpenBracket>> \o TypeToks(ty.elem) \o <<TCloseBracket>>
      [] ty.t = "Builder" ->
            <<TAppender, TOpenBracket>> \o TypeToks(ty.builder.elem) \o <<TCloseBracket>>
      [] OTHER -> <<TOpenBrace>> \o FieldToks(ty.fields) \o <<TCloseBrace>>

\* T1 , T2 , ... , Tn
FieldToks(fields) ==
    IF Len(fields) = 0 THEN <<>>
    ELSE IF Len(fields) = 1 THEN TypeToks(fields[1])
    ELSE FieldToks(SubSeq(fields, 1, Len(fields) - 1)) \o <<TComma>>
            \o TypeToks(fields[Len(fields)])

TypeInputs == { Eoi(TypeToks(ty)) : ty \in Types(MaxTypeDepth) }

\* Lambdas, each with its expression.  The k-th parameter is named by the
\* k-th letter and is written bare, with `: i32` or with `: vec[?]`; the
\* list is closed by `|` or by `,|`, and the list without parameters is
\* written `||` or `| |`.
Annotations ==
    << [toks |-> <<>>, ty |-> Unknown],
       [toks |-> <<TColon, TI32>>, ty |-> Scalar("I32")],
       [toks |-> <<TColon, TVec, TOpenBracket, TQuestion, TCloseBracket>>,
        ty |-> Vector(Unknown)] >>

MaxParams == 2

\* p1 [: T1] , ... , pn [: Tn]  for the annotations numbered as[1..n]
RECURSIVE ParamToks(_)
ParamToks(as) ==
    IF Len(as) = 0 THEN <<>>
    ELSE (IF Len(as) = 1 THEN <<>> ELSE ParamToks(SubSeq(as, 1, Len(as) - 1)) \o <<TComma>>)
            \o <<Id(Letters[Len(as)])>> \o Annotations[as[Len(as)]].toks

ParamsOf(as) ==
    [k \in 1..Len(as) |-> PartialParameter(Symbol(<<Letters[k]>>), Annotations[as[k]].ty)]

\* the ways to write the parameter list
LambdaHeads(as) ==
    IF Len(as) = 0 THEN { <<TLogicalOr>>, <<TBar, TBar>> }
    ELSE { <<TBar>> \o ParamToks(as) \o <<TBar>>,
           <<TBar>> \o ParamToks(as) \o <<TComma, TBar>> }

\* bodies: a + b,  a || b,  |x| x,  let t = a; t
LambdaBodies ==
    << [toks |-> <<Id("a"), TPlus, Id("b")>>, expr |-> BinOp("Add", Var("a"), Var("b"))],
       [toks |-> <<Id("a"), TLogicalOr, Id("b")>>,
        expr |-> BinOp("LogicalOr", Var("a"), Var("b"))],
       [toks |-> <<TBar, Id("x"), TBar, Id("x")>>,
        expr |-> Lambda(<<PartialParameter(Symbol(<<"x">>), Unknown)>>, Var("x"))],
       [toks |-> <<TLet, Id("t"), TEqual, Id("a"), TSemicolon, Id("t")>>,
        expr |-> Let(Symbol(<<"t">>), Var("a"), Var("t"))] >>

LambdaCases ==
    UNION { UNION { { [toks |-> head \o LambdaBodies[b].toks,
                       expr |-> Lambda(ParamsOf(as), LambdaBodies[b].expr)] :
                      head \in LambdaHeads(as), b \in 1..Len(LambdaBodies) } :
                    as \in [1..n -> 1..Len(Annotations)] } :
            n \in 0..MaxParams }

\* Ascriptions.  The expressions that are ascribed, each with its value:
\*   a   a.$0   f(x)   1   (a + b)   appender
Ascribable ==
    << [toks |-> <<Id("a")>>, expr |-> Var("a")],
       [toks |-> <<Id("a"), TDot, Field("0")>>, expr |-> GetField(Var("a"), U32(0, 0))],
       [toks |-> <<Id("f"), TOpenParen, Id("x"), TCloseParen>>,
        expr |-> Apply(Var("f"), <<Var("x")>>)],
       [toks |-> <<TI32Literal(1)>>, expr |-> I32Literal(1)],
       [toks |-> <<TOpenParen, Id("a"), TPlus, Id("b"), TCloseParen>>,
        expr |-> BinOp("Add", Var("a"), Var("b"))],
       [toks |-> <<TAppender>>, expr |-> WithTy(NewBuilder, Builder(Appender(Unknown)))] >>

\* The types they are ascribed:  i32   ?   vec[f64]   {bool, ?}
AscribedTypes ==
    { Scalar("I32"), Unknown, Vector(Scalar("F64")), Struct(<<Scalar("Bool"), Unknown>>) }

\* e : T
Ascribed(e, ty) == e \o <<TColon>> \o TypeToks(ty)

\* e : T    e : T op b    b op e : T,  for every binary operator op
AscribedInputs ==
    UNION { { Ascribed(Ascribable[e].toks, ty) } \cup
            UNION { { Ascribed(Ascribable[e].toks, ty) \o <<op, Id("b")>>,
                      <<Id("b"), op>> \o Ascribed(Ascribable[e].toks, ty) } :
                    op \in BinOpTokens } :
            e \in 1..Len(Ascribable), ty \in AscribedTypes }

\* e : T : U, bare, in parentheses, in a vector, as the left and as the right
\* operand
TwiceAscribedInputs ==
    UNION { { Ascribed(Ascribed(Ascribable[e].toks, ty), second),
              <<TOpenParen>> \o Ascribed(Ascribed(Ascribable[e].toks, ty), second)
                  \o <<TCloseParen>>,
              <<TOpenBracket>> \o Ascribed(Ascribed(Ascribable[e].toks, ty), second)
                  \o <<TCloseBracket>>,
              Ascribed(Ascribed(Ascribable[e].toks, ty), second) \o <<TPlus, Id("b")>>,
              <<Id("b"), TTimes>> \o Ascribed(Ascribed(Ascribable[e].toks, ty), second) } :
            e \in 1..Len(Ascribable), ty \in AscribedTypes, second \in AscribedTypes }

\* (e : T) : U, each with its expression
ReascribedCases ==
    { [toks |-> Ascribed(<<TOpenParen>> \o Ascribed(Ascribable[e].toks, ty) \o <<TCloseParen>>,
                         second),
       expr |-> WithTy(Ascribable[e].expr, second)] :
      e \in 1..Len(Ascribable), ty \in AscribedTypes, second \in AscribedTypes }

\* the inputs of the ascriptions
AscriptionInputs ==
    AscribedInputs \cup TwiceAscribedInputs \cup { c.toks : c \in ReascribedCases }

\* Lets:  let v [: T] = value ; body.  The annotations are none and the types
\* of AscribedTypes.
\* values:  1   a + b   f(x)   [2, 3]   a : i32
LetValues ==
    << [toks |-> <<TI32Literal(1)>>, expr |-> I32Literal(1)],
       [toks |-> <<Id("a"), TPlus, Id("b")>>, expr |-> BinOp("Add", Var("a"), Var("b"))],
       [toks |-> <<Id("f"), TOpenParen, Id("x"), TCloseParen>>,
        expr |-> Apply(Var("f"), <<Var("x")>>)],
       [toks |-> <<TOpenBracket, TI32Literal(2), TComma, TI32Literal(3), TCloseBracket>>,
        expr |-> MakeVector(<<I32Literal(2), I32Literal(3)>>)],
       [toks |-> <<Id("a"), TColon, TI32>>, expr |-> WithTy(Var("a"), Scalar("I32"))] >>

\* bodies:  v   v + 1   let w = v; w   |x| v
LetBodies ==
    << [toks |-> <<Id("v")>>, expr |-> Var("v")],
       [toks |-> <<Id("v"), TPlus, TI32Literal(1)>>,
        expr |-> BinOp("Add", Var("v"), I32Literal(1))],
       [toks |-> <<TLet, Id("w"), TEqual, Id("v"), TSemicolon, Id("w")>>,
        expr |-> Let(Symbol(<<"w">>), Var("v"), Var("w"))],
       [toks |-> <<TBar, Id("x"), TBar, Id("v")>>,
        expr |-> Lambda(<<PartialParameter(Symbol(<<"x">>), Unknown)>>, Var("v"))] >>

\* let v = value ; body   and   let v : T = value ; body, each with its Let
LetCases ==
    UNION { { [toks |-> Eoi(<<TLet, Id("v"), TEqual>> \o LetValues[v].toks \o <<TSemicolon>>
                               \o LetBodies[b].toks),
               annotated |-> FALSE,
               expr |-> Let(Symbol(<<"v">>), LetValues[v].expr, LetBodies[b].expr)] } \cup
            { [toks |-> Eoi(<<TLet, Id("v"), TColon>> \o TypeToks(ty) \o <<TEqual>>
                               \o LetValues[v].toks \o <<TSemicolon>> \o LetBodies[b].toks),
               annotated |-> TRUE,
               expr |-> WithTy(Let(Symbol(<<"v">>), LetValues[v].expr, LetBodies[b].expr), ty)] :
              ty \in AscribedTypes } :
            v \in 1..Len(LetValues), b \in 1..Len(LetBodies) }

\* the place of the `=` and of the `;` of the let that starts the input
FirstPlace(toks, tok) ==
    CHOOSE i \in 1..Len(toks) : toks[i] = tok /\ \A k \in 1..(i - 1) : toks[k] # tok
PlaceOfEqual(c) == FirstPlace(c.toks, TEqual)
PlaceOfSemicolon(c) == FirstPlace(c.toks, TSemicolon)

\* the same inputs without the `=`, and without the `;`
BrokenLets ==
    UNION { { Without(c.toks, PlaceOfEqual(c)), Without(c.toks, PlaceOfSemicolon(c)) } :
            c \in LetCases }

\* Field indexes: the text after `$` with the u32 it denotes:
\*   0  7  00  007  12  65535  65536  1000000  2147483647  2147483648  4294967295  0004294967295
IndexCases ==
    << [text |-> <<"0">>, index |-> U32(0, 0)],
       [text |-> <<"7">>, index |-> U32(0, 7)],
       [text |-> <<"0", "0">>, index |-> U32(0, 0)],
       [text |-> <<"0", "0", "7">>, index |-> U32(0, 7)],
       [text |-> <<"1", "2">>, index |-> U32(0, 12)],
       [text |-> <<"6", "5", "5", "3", "5">>, index |-> U32(0, 65535)],
       [text |-> <<"6", "5", "5", "3", "6">>, index |-> U32(1, 0)],
       [text |-> <<"1", "0", "0", "0", "0", "0", "0">>, index |-> U32(15, 16960)],
       [text |-> <<"2", "1", "4", "7", "4", "8", "3", "6", "4", "7">>, index |-> U32(32767, 65535)],
       [text |-> <<"2", "1", "4", "7", "4", "8", "3", "6", "4", "8">>, index |-> U32(32768, 0)],
       [text |-> <<"4", "2", "9", "4", "9", "6", "7", "2", "9", "5">>, index |-> U32(65535, 65535)],
       [text |-> <<"0", "0", "0", "4", "2", "9", "4", "9", "6", "7", "2", "9", "5">>, index |-> U32(65535, 65535)] >>

\* and texts that denote no u32: empty, not decimal, above 4294967295
\*   (empty)  x  1a  a1  $1  _  4294967296  4294967300  4294967305  5000000000  9999999999  42949672950  18446744073709551616
BadIndexTexts ==
    { <<>>,
      <<"x">>,
      <<"1", "a">>,
      <<"a", "1">>,
      <<"$", "1">>,
      <<"_">>,
      <<"4", "2", "9", "4", "9", "6", "7", "2", "9", "6">>,
      <<"4", "2", "9", "4", "9", "6", "7", "3", "0", "0">>,
      <<"4", "2", "9", "4", "9", "6", "7", "3", "0", "5">>,
      <<"5", "0", "0", "0", "0", "0", "0", "0", "0", "0">>,
      <<"9", "9", "9", "9", "9", "9", "9", "9", "9", "9">>,
      <<"4", "2", "9", "4", "9", "6", "7", "2", "9", "5", "0">>,
      <<"1", "8", "4", "4", "6", "7", "4", "4", "0", "7", "3", "7", "0", "9", "5", "5", "1", "6", "1", "6">> }

\* a.$N   a.$N.$0   f(a.$N)
FieldOf(text) == TIdent(<<"$">> \o text)
Indexed(text) == <<Id("a"), TDot, FieldOf(text)>>
IndexInputs(text) ==
    { Indexed(text),
      Indexed(text) \o <<TDot, Field("0")>>,
      <<Id("f"), TOpenParen>> \o Indexed(text) \o <<TCloseParen>> }

\* Applications and field accesses after an expression, each with what it
\* makes of the expression e before it:
\*   .$0   .$1   ()   (b)   (0, 1)   (|x| x, let y = 1; y)
Postfixes ==
    << [toks |-> <<TDot, Field("0")>>, field |-> TRUE, index |-> U32(0, 0), args |-> <<>>],
       [toks |-> <<TDot, Field("1")>>, field |-> TRUE, index |-> U32(0, 1), args |-> <<>>],
       [toks |-> <<TOpenParen, TCloseParen>>, field |-> FALSE, index |-> U32(0, 0),
        args |-> <<>>],
       [toks |-> <<TOpenParen, Id("b"), TCloseParen>>, field |-> FALSE, index |-> U32(0, 0),
        args |-> <<Var("b")>>],
       [toks |-> <<TOpenParen, TI32Literal(0), TComma, TI32Literal(1), TCloseParen>>,
        field |-> FALSE, index |-> U32(0, 0), args |-> <<I32Literal(0), I32Literal(1)>>],
       [toks |-> <<TOpenParen, TBar, Id("x"), TBar, Id("x"), TComma, TLet, Id("y"), TEqual,
                   TI32Literal(1), TSemicolon, Id("y"), TCloseParen>>,
        field |-> FALSE, index |-> U32(0, 0),
        args |-> <<Lambda(<<PartialParameter(Symbol(<<"x">>), Unknown)>>, Var("x")),
                   Let(Symbol(<<"y">>), I32Literal(1), Var("y"))>>] >>

\* Chains have at most MaxChain applications and field accesses
MaxChain == 3

\* a followed by the postfixes ps[1], ps[2], ..., and the expression it is:
\* each postfix wraps the whole expression before it
RECURSIVE ChainToks(_), ChainExpr(_)
ChainToks(ps) ==
    IF Len(ps) = 0 THEN <<Id("a")>>
    ELSE ChainToks(SubSeq(ps, 1, Len(ps) - 1)) \o Postfixes[ps[Len(ps)]].toks
ChainExpr(ps) ==
    IF Len(ps) = 0 THEN Var("a")
    ELSE IF Postfixes[ps[Len(ps)]].field
    THEN GetField(ChainExpr(SubSeq(ps, 1, Len(ps) - 1)), Postfixes[ps[Len(ps)]].index)
    ELSE Apply(ChainExpr(SubSeq(ps, 1, Len(ps) - 1)), Postfixes[ps[Len(ps)]].args)

Chains == UNION { [1..n -> 1..Len(Postfixes)] : n \in 0..MaxChain }
ChainCases == { [toks |-> Eoi(ChainToks(ps)), expr |-> ChainExpr(ps)] : ps \in Chains }

\* A Minus where an operand is expected:
\*   -5   - a   a * -5   (-a)   a - -b   [-1]   {-1}   f(-1)   let v = -1; v
\*   |x| -x   a + b - - c   if(-a, b, c)   a == -1
MinusOperands ==
    { <<TMinus, TI32Literal(5)>>,
      <<TMinus, Id("a")>>,
      <<Id("a"), TTimes, TMinus, TI32Literal(5)>>,
      <<TOpenParen, TMinus, Id("a"), TCloseParen>>,
      <<Id("a"), TMinus, TMinus, Id("b")>>,
      <<TOpenBracket, TMinus, TI32Literal(1), TCloseBracket>>,
      <<TOpenBrace, TMinus, TI32Literal(1), TCloseBrace>>,
      <<Id("f"), TOpenParen, TMinus, TI32Literal(1), TCloseParen>>,
      <<TLet, Id("v"), TEqual, TMinus, TI32Literal(1), TSemicolon, Id("v")>>,
      <<TBar, Id("x"), TBar, TMinus, Id("x")>>,
      <<Id("a"), TPlus, Id("b"), TMinus, TMinus, Id("c")>>,
      <<TIf, TOpenParen, TMinus, Id("a"), TComma, Id("b"), TComma, Id("c"), TCloseParen>>,
      <<Id("a"), TEqualEqual, TMinus, TI32Literal(1)>>,
      <<TMinus, TF64Literal(1)>>,
      <<TMinus, TI64Literal(1)>> }

\* A Minus between two operands, each with its expression:
\*   5 - 1   a - b * c   (a) - [b]   f(x) - a.$0   a : i32 - 1   0 - 5
MinusBetween ==
    { [toks |-> <<TI32Literal(5), TMinus, TI32Literal(1)>>,
       expr |-> BinOp("Subtract", I32Literal(5), I32Literal(1))],
      [toks |-> <<Id("a"), TMinus, Id("b"), TTimes, Id("c")>>,
       expr |-> BinOp("Subtract", Var("a"), BinOp("Multiply", Var("b"), Var("c")))],
      [toks |-> <<TOpenParen, Id("a"), TCloseParen, TMinus, TOpenBracket, Id("b"),
                  TCloseBracket>>,
       expr |-> BinOp("Subtract", Var("a"), MakeVector(<<Var("b")>>))],
      [toks |-> <<Id("f"), TOpenParen, Id("x"), TCloseParen, TMinus, Id("a"), TDot,
                  Field("0")>>,
       expr |-> BinOp("Subtract", Apply(Var("f"), <<Var("x")>>),
                      GetField(Var("a"), U32(0, 0)))],
      [toks |-> <<Id("a"), TColon, TI32, TMinus, TI32Literal(1)>>,
       expr |-> BinOp("Subtract", WithTy(Var("a"), Scalar("I32")), I32Literal(1))],
      [toks |-> <<TI32Literal(0), TMinus, TI32Literal(5)>>,
       expr |-> BinOp("Subtract", I32Literal(0), I32Literal(5))] }

\* Expressions put in parentheses, each with its node:
\*   a   a : i32   let x : i32 = 1; x   let x = 1; x   appender[i32]   |y| y
\*   a + b   [a] : vec[i32]
Parenthesised ==
    << [toks |-> <<Id("a")>>, expr |-> Var("a")],
       [toks |-> <<Id("a"), TColon, TI32>>, expr |-> WithTy(Var("a"), Scalar("I32"))],
       [toks |-> <<TLet, Id("x"), TColon, TI32, TEqual, TI32Literal(1), TSemicolon, Id("x")>>,
        expr |-> WithTy(Let(Symbol(<<"x">>), I32Literal(1), Var("x")), Scalar("I32"))],
       [toks |-> <<TLet, Id("x"), TEqual, TI32Literal(1), TSemicolon, Id("x")>>,
        expr |-> Let(Symbol(<<"x">>), I32Literal(1), Var("x"))],
       [toks |-> <<TAppender, TOpenBracket, TI32, TCloseBracket>>,
        expr |-> WithTy(NewBuilder, Builder(Appender(Scalar("I32"))))],
       [toks |-> <<TBar, Id("y"), TBar, Id("y")>>,
        expr |-> Lambda(<<PartialParameter(Symbol(<<"y">>), Unknown)>>, Var("y"))],
       [toks |-> <<Id("a"), TPlus, Id("b")>>, expr |-> BinOp("Add", Var("a"), Var("b"))],
       [toks |-> <<TOpenBracket, Id("a"), TCloseBracket, TColon, TVec, TOpenBracket, TI32,
                   TCloseBracket>>,
        expr |-> WithTy(MakeVector(<<Var("a")>>), Vector(Scalar("I32")))] >>

\* An expression stands in at most MaxParens pairs of parentheses
MaxParens == 2

RECURSIVE InParens(_, _)
InParens(toks, d) ==
    IF d = 0 THEN toks ELSE <<TOpenParen>> \o InParens(toks, d - 1) \o <<TCloseParen>>

\* The types ascribed after the closing parenthesis:  i64   ?   vec[f64]
ReplacingTypes == { Scalar("I64"), Unknown, Vector(Scalar("F64")) }

\* (e)   ((e))   (e) : T   (e) + b   (e).$0,  each with its expression
ParenCases ==
    UNION { { [toks |-> InParens(Parenthesised[e].toks, d), expr |-> Parenthesised[e].expr] :
              d \in 0..MaxParens } \cup
            { [toks |-> Ascribed(InParens(Parenthesised[e].toks, d), ty),
               expr |-> WithTy(Parenthesised[e].expr, ty)] :
              d \in 1..MaxParens, ty \in ReplacingTypes } \cup
            { [toks |-> InParens(Parenthesised[e].toks, d) \o <<TPlus, Id("b")>>,
               expr |-> BinOp("Add", Parenthesised[e].expr, Var("b"))] :
              d \in 1..MaxParens } \cup
            { [toks |-> InParens(Parenthesised[e].toks, d) \o <<TDot, Field("0")>>,
               expr |-> GetField(Parenthesised[e].expr, U32(0, 0))] :
              d \in 1..MaxParens } :
            e \in 1..Len(Parenthesised) }

\* Unparenthesised lets and lambdas:  let b = 1; b    |x| x    || x
FullExprs ==
    << [toks |-> <<TLet, Id("b"), TEqual, TI32Literal(1), TSemicolon, Id("b")>>,
        expr |-> Let(Symbol(<<"b">>), I32Literal(1), Var("b"))],
       [toks |-> <<TBar, Id("x"), TBar, Id("x")>>,
        expr |-> Lambda(<<PartialParameter(Symbol(<<"x">>), Unknown)>>, Var("x"))],
       [toks |-> <<TLogicalOr, Id("x")>>, expr |-> Lambda(<<>>, Var("x"))] >>

\* X where a full expression is expected, each with the expression read:
\*   X   (X)   [X, a]   {X, a}   f(X, a)   if(c, X, a)   for(X, a, c)
\*   merge(a, X)   result(X)   let v = 1; X   |y| X
Placed(x) ==
    { [toks |-> x.toks, expr |-> x.expr],
      [toks |-> <<TOpenParen>> \o x.toks \o <<TCloseParen>>, expr |-> x.expr],
      [toks |-> <<TOpenBracket>> \o x.toks \o <<TComma, Id("a"), TCloseBracket>>,
       expr |-> MakeVector(<<x.expr, Var("a")>>)],
      [toks |-> <<TOpenBrace>> \o x.toks \o <<TComma, Id("a"), TCloseBrace>>,
       expr |-> MakeStruct(<<x.expr, Var("a")>>)],
      [toks |-> <<Id("f"), TOpenParen>> \o x.toks \o <<TComma, Id("a"), TCloseParen>>,
       expr |-> Apply(Var("f"), <<x.expr, Var("a")>>)],
      [toks |-> <<TIf, TOpenParen, Id("c"), TComma>> \o x.toks
                    \o <<TComma, Id("a"), TCloseParen>>,
       expr |-> If(Var("c"), x.expr, Var("a"))],
      [toks |-> <<TFor, TOpenParen>> \o x.toks
                    \o <<TComma, Id("a"), TComma, Id("c"), TCloseParen>>,
       expr |-> For(x.expr, Var("a"), Var("c"))],
      [toks |-> <<TMerge, TOpenParen, Id("a"), TComma>> \o x.toks \o <<TCloseParen>>,
       expr |-> Merge(Var("a"), x.expr)],
      [toks |-> <<TResult, TOpenParen>> \o x.toks \o <<TCloseParen>>, expr |-> Res(x.expr)],
      [toks |-> <<TLet, Id("v"), TEqual, TI32Literal(1), TSemicolon>> \o x.toks,
       expr |-> Let(Symbol(<<"v">>), I32Literal(1), x.expr)],
      [toks |-> <<TBar, Id("y"), TBar>> \o x.toks,
       expr |-> Lambda(<<PartialParameter(Symbol(<<"y">>), Unknown)>>, x.expr)] }

PlacedCases == UNION { Placed(FullExprs[x]) : x \in 1..Len(FullExprs) }

\* X as the body of a macro:  macro m() = X; a
MacroBodyCases ==
    { [toks |-> <<TMacro, Id("m"), TOpenParen, TCloseParen, TEqual>> \o FullExprs[x].toks
                    \o <<TSemicolon, Id("a")>>,
       expr |-> Program(<<Macro(Symbol(<<"m">>), <<>>, FullExprs[x].expr)>>, Var("a"))] :
      x \in 1..Len(FullExprs) }

\* X as the value of a let and as the right operand of each binary operator:
\*   let v = X; v     a op X
MisplacedInputs ==
    UNION { { <<TLet, Id("v"), TEqual>> \o FullExprs[x].toks \o <<TSemicolon, Id("v")>> } \cup
            { <<Id("a"), op>> \o FullExprs[x].toks : op \in BinOpTokens } :
            x \in 1..Len(FullExprs) }

---------------------------------------------------------------------------
(* easy_ll (src/easy_ll/src/lib.rs): compile_module called from several
   threads.  What LLVM answers is not decided by the program: every call into
   LLVM that can fail takes either outcome.  A context or engine handle is the
   index of the CompiledModule it belongs to, 0 is the null pointer. *)

MaxThreads == 2
MaxCompiles == 2
Threads == 1..MaxThreads

None == [some |-> FALSE]
Some(x) == [some |-> TRUE, val |-> x]

\* `CompiledModule { context: context, engine: None, function: None }`, with
\* where the object is (a local of compile_module, with the caller, dropped)
\* and the LLVM objects disposed for it, in order
CompiledModule(context, t) ==
    [context |-> context, engine |-> None, function |-> None,
     where |-> "compile_module", owner |-> t, disposed |-> <<>>, ran |-> FALSE]

LlvmError(description) == [ok |-> FALSE, err |-> description, module |-> 0]
OkModule(m) == [ok |-> TRUE, err |-> "", module |-> m]
NoCall == [ok |-> FALSE, err |-> "", module |-> 0]

Idle == [pc |-> "idle", result |-> 0, out |-> NoCall]

InitLl ==
    /\ ONCE = "INCOMPLETE"
    /\ initialize_failed = FALSE
    /\ threads = [t \in Threads |-> Idle]
    /\ modules = <<>>
    /\ initialize_runs = 0
    /\ calls = 0

\* A drop that disposes of the context first (the faulty variant the disposal
\* property is tried against)
drop_context_first(m) ==
    [m EXCEPT !.where = "dropped",
              !.disposed = @ \o <<"LLVMContextDispose">>
                             \o (IF m.engine.some THEN <<"LLVMDisposeExecutionEngine">>
                                 ELSE <<>>)]

\* impl Drop for CompiledModule: the engine if there is one, then the context
drop(m) ==
    [m EXCEPT !.where = "dropped",
              !.disposed = @ \o (IF m.engine.some THEN <<"LLVMDisposeExecutionEngine">>
                                 ELSE <<>>)
                             \o <<"LLVMContextDispose">>]

At(t, where) == threads[t].pc = where
Goto(t, where) == threads' = [threads EXCEPT ![t].pc = where]

\* `return Err(..)`, also by try!: the local `result`, if it exists, is dropped
ReturnErr(t, description) ==
    /\ threads' = [threads EXCEPT ![t] = [pc |-> "idle", result |-> 0,
                                          out |-> LlvmError(description)]]
    /\ modules' = IF threads[t].result = 0 THEN modules
                  ELSE [modules EXCEPT ![threads[t].result] = drop(@)]

\* a caller enters compile_module
Call(t) ==
    /\ At(t, "idle")
    /\ calls < MaxCompiles
    /\ calls' = calls + 1
    /\ threads' = [threads EXCEPT ![t] = [pc |-> "call_once", result |-> 0, out |-> NoCall]]
    /\ UNCHANGED <<ONCE, initialize_failed, modules, initialize_runs>>

\* A call_once that returns at once while another thread is in the closure
\* (the faulty variant the initialization property is tried against)
call_once_not_waiting(t) ==
    /\ At(t, "call_once")
    /\ IF ONCE = "INCOMPLETE"
       THEN /\ ONCE' = "RUNNING"
            /\ initialize_runs' = initialize_runs + 1
            /\ Goto(t, "LLVM_InitializeNativeTarget")
       ELSE /\ Goto(t, "initialize_failed")
            /\ UNCHANGED <<ONCE, initialize_runs>>
    /\ UNCHANGED <<initialize_failed, modules, calls>>

\* ONCE.call_once(|| initialize()): the first caller runs the closure, a caller
\* that comes while it runs waits, a caller that comes after it returns goes on
call_once(t) ==
    /\ At(t, "call_once")
    /\ ONCE # "RUNNING"
    /\ IF ONCE = "INCOMPLETE"
       THEN /\ ONCE' = "RUNNING"
            /\ initialize_runs' = initialize_runs + 1
            /\ Goto(t, "LLVM_InitializeNativeTarget")
       ELSE /\ Goto(t, "initialize_failed")
            /\ UNCHANGED <<ONCE, initialize_runs>>
    /\ UNCHANGED <<initialize_failed, modules, calls>>

\* one of the three calls of initialize() that can fail: on failure the flag
\* is set and initialize returns
InitializeStep(t, here, then) ==
    /\ At(t, here)
    /\ \E failed \in BOOLEAN :
          IF failed THEN initialize_failed' = TRUE /\ Goto(t, "call_once_return")
          ELSE UNCHANGED initialize_failed /\ Goto(t, then)
    /\ UNCHANGED <<ONCE, modules, initialize_runs, calls>>

LLVM_InitializeNativeTarget(t) ==
    InitializeStep(t, "LLVM_InitializeNativeTarget", "LLVM_InitializeNativeAsmPrinter")

LLVM_InitializeNativeAsmPrinter(t) ==
    InitializeStep(t, "LLVM_InitializeNativeAsmPrinter", "LLVM_InitializeNativeAsmParser")

LLVM_InitializeNativeAsmParser(t) ==
    InitializeStep(t, "LLVM_InitializeNativeAsmParser", "LLVMLinkInMCJIT")

LLVMLinkInMCJIT(t) ==
    /\ At(t, "LLVMLinkInMCJIT")
    /\ Goto(t, "call_once_return")
    /\ UNCHANGED <<ONCE, initialize_failed, modules, initialize_runs, calls>>

\* the closure has returned: the Once is complete and the waiting callers go on
call_once_return(t) ==
    /\ At(t, "call_once_return")
    /\ ONCE' = "COMPLETE"
    /\ Goto(t, "initialize_failed")
    /\ UNCHANGED <<initialize_failed, modules, initialize_runs, calls>>

\* `if initialize_failed { return Err(..) }`
check_initialize_failed(t) ==
    /\ At(t, "initialize_failed")
    /\ IF initialize_failed
       THEN ReturnErr(t, "LLVM initialization failed")
       ELSE Goto(t, "LLVMContextCreate") /\ UNCHANGED modules
    /\ UNCHANGED <<ONCE, initialize_failed, initialize_runs, calls>>

\* LLVMContextCreate(), the null check, and the CompiledModule around it
LLVMContextCreate(t) ==
    /\ At(t, "LLVMContextCreate")
    /\ \E null \in BOOLEAN :
          IF null THEN ReturnErr(t, "LLVMContextCreate returned null")
          ELSE /\ modules' = Append(modules, CompiledModule(Len(modules) + 1, t))
               /\ threads' = [threads EXCEPT ![t].pc = "parse_module",
                                             ![t].result = Len(modules) + 1]
    /\ UNCHANGED <<ONCE, initialize_failed, initialize_runs, calls>>

\* try!(f(..)) for a step that leaves `result` as it is: an error of f is
\* returned, otherwise compile_module goes on
TryStep(t, here, errors, then) ==
    /\ At(t, here)
    /\ \/ \E description \in errors : ReturnErr(t, description)
       \/ Goto(t, then) /\ UNCHANGED modules
    /\ UNCHANGED <<ONCE, initialize_failed, initialize_runs, calls>>

parse_module(t) ==
    TryStep(t, "parse_module",
            {"Null byte in string", "LLVMCreateMemoryBufferWithMemoryRange failed",
             "Compile error: {}"},
            "verify_module")

verify_module(t) ==
    TryStep(t, "verify_module", {"Module verification failed: {}"}, "check_run_function")

check_run_function(t) ==
    TryStep(t, "check_run_function",
            {"No run function in module", "Run function has wrong type: {}"},
            "optimize_module")

optimize_module(t) ==
    TryStep(t, "optimize_module",
            {"LLVMCreatePassManager returned null",
             "LLVMPassManagerBuilderCreate returned null"},
            "create_exec_engine")

\* `let engine = try!(create_exec_engine(module)); result.engine = Some(engine);`
create_exec_engine(t) ==
    /\ At(t, "create_exec_engine")
    /\ \/ ReturnErr(t, "Creating execution engine failed: {}")
       \/ /\ modules' = [modules EXCEPT ![threads[t].result].engine = Some(threads[t].result)]
          /\ Goto(t, "find_run_function")
    /\ UNCHANGED <<ONCE, initialize_failed, initialize_runs, calls>>

\* A lookup whose failure is not looked at: the function stays None and
\* compile_module goes on (the faulty variant the returned-module property is
\* tried against)
find_run_function_unchecked(t) ==
    /\ At(t, "find_run_function")
    /\ \E found \in BOOLEAN :
          modules' = [modules EXCEPT
                         ![threads[t].result].function = IF found THEN Some("run") ELSE None]
    /\ Goto(t, "Ok")
    /\ UNCHANGED <<ONCE, initialize_failed, initialize_runs, calls>>

\* `result.function = Some(try!(find_run_function(engine)));`
find_run_function(t) ==
    /\ At(t, "find_run_function")
    /\ \/ ReturnErr(t, "No run function in module")
       \/ /\ modules' = [modules EXCEPT ![threads[t].result].function = Some("run")]
          /\ Goto(t, "Ok")
    /\ UNCHANGED <<ONCE, initialize_failed, initialize_runs, calls>>

\* `Ok(result)`: the module moves to the caller
ReturnOk(t) ==
    /\ At(t, "Ok")
    /\ modules' = [modules EXCEPT ![threads[t].result].where = "caller"]
    /\ threads' = [threads EXCEPT ![t] = [pc |-> "idle", result |-> 0,
                                          out |-> OkModule(threads[t].result)]]
    /\ UNCHANGED <<ONCE, initialize_failed, initialize_runs, calls>>

\* the modules the caller t holds
Held(t) == { m \in 1..Len(modules) : modules[m].where = "caller" /\ modules[m].owner = t }

\* CompiledModule::run: `(self.function.unwrap())(arg)`; unwrap panics on None
run(t) ==
    /\ At(t, "idle")
    /\ \E m \in Held(t) :
          /\ ~modules[m].ran
          /\ IF modules[m].function.some
             THEN modules' = [modules EXCEPT ![m].ran = TRUE] /\ UNCHANGED threads
             ELSE Goto(t, "panicked") /\ UNCHANGED modules
    /\ UNCHANGED <<ONCE, initialize_failed, initialize_runs, calls>>

\* the caller lets go of a module it was returned
DropModule(t) ==
    /\ At(t, "idle")
    /\ \E m \in Held(t) : modules' = [modules EXCEPT ![m] = drop(@)]
    /\ UNCHANGED <<ONCE, initialize_failed, threads, initialize_runs, calls>>

NextLl ==
    /\ \E t \in Threads :
          \/ Call(t)
          \/ call_once(t)
          \/ LLVM_InitializeNativeTarget(t)
          \/ LLVM_InitializeNativeAsmPrinter(t)
          \/ LLVM_InitializeNativeAsmParser(t)
          \/ LLVMLinkInMCJIT(t)
          \/ call_once_return(t)
          \/ check_initialize_failed(t)
          \/ LLVMContextCreate(t)
          \/ parse_module(t)
          \/ verify_module(t)
          \/ check_run_function(t)
          \/ optimize_module(t)
          \/ create_exec_engine(t)
          \/ find_run_function(t)
          \/ ReturnOk(t)
          \/ run(t)
          \/ DropModule(t)
    /\ UNCHANGED <<tokens, pc, position, hi, inner, ret>>

---------------------------------------------------------------------------
(* One call of one entry point on one input *)

NoResult == [ok |-> FALSE, val |-> Unit, err |-> NoError]

Fresh ==
    /\ pc = "start"
    /\ position = 0
    /\ hi = -1
    /\ inner = NoResult
    /\ ret = NoResult
    /\ InitLl

\* The inputs of the tests, these with one token left out or replaced, field
\* accesses, types, lambdas, ascriptions, lets, lets and lambdas placed in
\* other expressions, and programs composed of declarations, a body and a tail
Init ==
    /\ \/ tokens \in { Eoi(s) : s \in Tests \cup FieldExprs }
       \/ tokens \in TypeInputs
       \/ tokens \in { Eoi(c.toks) : c \in LambdaCases }
       \/ tokens \in { Eoi(s) : s \in AscriptionInputs }
       \/ tokens \in { c.toks : c \in LetCases } \cup BrokenLets
       \/ tokens \in { Eoi(c.toks) : c \in PlacedCases \cup MacroBodyCases }
       \/ tokens \in { Eoi(s) : s \in MisplacedInputs }
       \/ tokens \in { c.toks : c \in ChainCases }
       \/ tokens \in { Eoi(c.toks) : c \in ParenCases }
       \/ tokens \in { Eoi(s) : s \in MinusOperands }
       \/ tokens \in { Eoi(c.toks) : c \in MinusBetween }
       \/ \E c \in 1..Len(IndexCases) :
             tokens \in { Eoi(s) : s \in IndexInputs(IndexCases[c].text) }
       \/ \E text \in BadIndexTexts : tokens \in { Eoi(s) : s \in IndexInputs(text) }
       \/ \E s \in Tests : tokens \in { Eoi(Without(s, i)) : i \in 1..Len(s) }
       \/ \E s \in Tests :
             tokens \in { Eoi(Replaced(s, i, t)) : i \in 1..Len(s), t \in AllTokens }
       \/ \E n \in 0..MaxMacros : \E ds \in [1..n -> 1..Len(Decls)] :
             tokens \in { Eoi(DeclToks(ds) \o Bodies[b].toks \o Tails[t]) :
                          b \in 1..Len(Bodies), t \in 1..Len(Tails) }
       \/ \E d \in 1..Len(Decls) :
             tokens \in { Eoi(Without(Decls[d].toks, i) \o Bodies[b].toks) :
                          i \in 1..Len(Decls[d].toks), b \in 1..Len(Bodies) }
    /\ Fresh

\* The tests' expressions and operator expressions a op b op c ..., bare and
\* wrapped
InitOps ==
    /\ \/ tokens \in { Eoi(s) : s \in TestExprs }
       \/ \E k \in 0..MaxOps : tokens \in { Eoi(Flat(ops)) : ops \in [1..k -> BinOpTokens] }
       \/ \E k \in 0..MaxWrapOps :
             tokens \in { Eoi(Wrapped(w, Flat(ops))) :
                          w \in Wrappers, ops \in [1..k -> BinOpTokens] }
    /\ Fresh

Returns(r) ==
    /\ position' = r.pos
    /\ hi' = r.hi
    /\ inner' = [ok |-> r.res.ok, val |-> r.res.val, err |-> r.res.err]
    /\ ret' = r.ret
    /\ UNCHANGED <<tokens, easy_ll>>

ParseProgram ==
    /\ pc = "start"
    /\ pc' = "parse_program"
    /\ Returns(parse_program(tokens))

ParseMacros ==
    /\ pc = "start"
    /\ pc' = "parse_macros"
    /\ Returns(parse_macros(tokens))

ParseExpr ==
    /\ pc = "start"
    /\ pc' = "parse_expr"
    /\ Returns(parse_expr(tokens))

ParseType ==
    /\ pc = "start"
    /\ pc' = "parse_type"
    /\ Returns(parse_type(tokens))

Next == ParseProgram \/ ParseMacros \/ ParseExpr \/ ParseType

Spec == Init /\ [][Next]_vars

SpecOps == InitOps /\ [][Next]_vars

\* compile_module from MaxThreads threads, MaxCompiles calls in all
InitThreads == tokens = <<TEndOfInput>> /\ Fresh

SpecLl == InitThreads /\ [][NextLl]_vars

---------------------------------------------------------------------------
(* Comma-separated lists: one call of one entry point on a list of each kind,
   written with items and commas in every order *)

ListKinds == {"vector", "struct", "args", "lambda", "macro", "type"}

\* A layout is what stands between the delimiters: items and commas in some
\* order, at most 2 * MaxItems of them
MaxItems == 3
Layouts == UNION { [1..n -> {"item", "comma"}] : n \in 0..(2 * MaxItems) }

\* the number of items among the first n places of a layout
ItemsBefore(lay, n) == Cardinality({ i \in 1..n : lay[i] = "item" })

ItemTypes == <<"I32", "F64", "Bool", "I64", "F32", "I32", "F64", "Bool", "I64", "F32">>

\* the i-th item of a list of kind k: a letter, or a scalar type
ItemTok(k, i) == IF k = "type" THEN ScalarToken(ItemTypes[i]) ELSE Id(Letters[i])
ItemVal(k, i) ==
    CASE k = "type" -> Scalar(ItemTypes[i])
      [] k = "lambda" -> PartialParameter(Symbol(<<Letters[i]>>), Unknown)
      [] k = "macro" -> Symbol(<<Letters[i]>>)
      [] OTHER -> Var(Letters[i])

LayoutToks(k, lay) ==
    [i \in 1..Len(lay) |->
        IF lay[i] = "comma" THEN TComma ELSE ItemTok(k, ItemsBefore(lay, i))]

\* [..]   {..}   f(..)   |..| x   macro m(..) = x; a   {..}
ListToks(k, lay) ==
    CASE k = "vector" -> <<TOpenBracket>> \o LayoutToks(k, lay) \o <<TCloseBracket>>
      [] k = "struct" -> <<TOpenBrace>> \o LayoutToks(k, lay) \o <<TCloseBrace>>
      [] k = "args" -> <<Id("f"), TOpenParen>> \o LayoutToks(k, lay) \o <<TCloseParen>>
      [] k = "lambda" -> <<TBar>> \o LayoutToks(k, lay) \o <<TBar, Id("x")>>
      [] k = "macro" ->
            <<TMacro, Id("m"), TOpenParen>> \o LayoutToks(k, lay)
                \o <<TCloseParen, TEqual, Id("x"), TSemicolon, Id("a")>>
      [] OTHER -> <<TOpenBrace>> \o LayoutToks(k, lay) \o <<TCloseBrace>>

\* the entry point that reads a list of kind k
ListEntry(k) ==
    CASE k = "macro" -> "parse_program"
      [] k = "type" -> "parse_type"
      [] OTHER -> "parse_expr"

InitLists ==
    /\ tokens \in { Eoi(ListToks(k, lay)) : k \in ListKinds, lay \in Layouts }
    /\ Fresh

SpecLists == InitLists /\ [][Next]_vars

---------------------------------------------------------------------------
(* One call of one entry point of the older front-end on one input *)

I32Name == TIdent(<<"i", "3", "2">>)
VecName == TIdent(<<"v", "e", "c">>)
Lit(n) == TI32Literal(n)

\* The expressions of the older basic_parsing, as its tokenizer gives them
\* (a field index is an integer literal, a type name an identifier)
WeldAstExprs ==
    { <<Lit(10), TMinus, Lit(2), TMinus, Lit(3), TPlus, Lit(1)>>,
      <<Lit(10), TTimes, Lit(2), TMinus, Lit(4), TMinus, Lit(3), TDivide, Lit(1)>>,
      <<TOpenBracket, Lit(1), TComma, Lit(2), TPlus, Lit(3), TComma, Lit(2), TCloseBracket>>,
      <<TLet, Id("a"), TEqual, Lit(3), TPlus, Lit(2), TSemicolon, TLet, Id("b"), TEqual,
        TOpenParen, TLet, Id("c"), TEqual, Id("a"), TSemicolon, Id("c"), TCloseParen,
        TSemicolon, Id("b")>>,
      <<TLet, Id("a"), TColon, VecName, TOpenBracket, I32Name, TCloseBracket, TEqual,
        TOpenBracket, Lit(2), TComma, Lit(3), TCloseBracket, TSemicolon, Id("a")>>,
      <<TBar, Id("a"), TComma, Id("b"), TColon, I32Name, TBar, Id("a"), TPlus, Id("b")>>,
      <<Id("a"), TDot, Lit(0), TDot, Lit(1)>>,
      <<Id("a"), TOpenParen, Lit(0), TComma, Lit(1), TCloseParen, TDot, Lit(0)>>,
      <<Id("a"), TDot, Lit(0), TOpenParen, Lit(0), TComma, Lit(1), TCloseParen, TDot, Lit(1),
        TOpenParen, TCloseParen>>,
      <<Lit(10), TTimes, TTimes, Lit(2)>>,
      <<Id("a"), TColon, I32Name, TPlus, Id("b")>>,
      <<Id("a")>>,
      <<TOpenBrace, Id("a"), TComma, TBoolLiteral(TRUE), TCloseBrace>> }

WeldAstTypes ==
    { <<TOpenBrace, I32Name, TComma, VecName, TOpenBracket, VecName, TOpenBracket, TQuestion,
        TCloseBracket, TCloseBracket, TComma, TQuestion, TCloseBrace>>,
      <<TOpenBrace, TCloseBrace>>,
      <<I32Name>>,
      <<TQuestion>>,
      <<TIdent(<<"a", "p", "p", "e", "n", "d", "e", "r">>), TOpenBracket,
        TIdent(<<"b", "o", "o", "l">>), TCloseBracket>> }

\* What may follow the expression or type in the input: nothing, or one token
\* and anything after it
WeldAstTails ==
    { <<>> } \cup
    { <<t>> : t \in { Id("b"), Lit(2), I32Name, TCloseParen, TCloseBracket, TCloseBrace,
                      TSemicolon, TEqual, TComma, TColon, TPlus, TTimes, TDot, TOpenParen,
                      TQuestion, TLet, TBar } } \cup
    { <<Id("b"), TPlus, Lit(1)>>, <<TCloseParen, TCloseParen>> }

InitAst ==
    /\ tokens \in { Eoi(s \o t) : s \in WeldAstExprs \cup WeldAstTypes, t \in WeldAstTails }
    /\ Fresh

WeldAstParseExpr ==
    /\ pc = "start"
    /\ pc' = "weld_ast::parse_expr"
    /\ Returns(weld_ast_parse_expr(tokens))

WeldAstParseType ==
    /\ pc = "start"
    /\ pc' = "weld_ast::parse_type"
    /\ Returns(weld_ast_parse_type(tokens))

NextAst == WeldAstParseExpr \/ WeldAstParseType

SpecAst == InitAst /\ [][NextAst]_vars

---------------------------------------------------------------------------
(* The Parser object, method by method.  After Parser::new (pc = "start") the
   cursor is moved by the methods of `impl Parser` only: peek, next, consume,
   is_done, and the rules, which are methods too and enter one another at the
   cursor they find.  A method that returns Err ends the parse (try!). *)

Methods == {"peek", "next", "consume", "is_done", "expr", "type_", "macro_", "symbol"}

\* Some of the tokens that the rules hand to consume
Expected == {TOpenParen, TCloseParen, TEqual, TSemicolon}

\* The inputs of the tests and of the field accesses, whole and with one
\* token left out
InitCursor ==
    /\ \/ tokens \in { Eoi(s) : s \in Tests \cup FieldExprs }
       \/ \E s \in Tests : tokens \in { Eoi(Without(s, i)) : i \in 1..Len(s) }
    /\ Fresh

\* The parser exists, no method has failed, and there is a token to read
Running ==
    /\ pc = "start" \/ (pc \in Methods /\ inner.ok)
    /\ position < Len(tokens)

Method(name, r) ==
    /\ pc' = name
    /\ position' = r.pos
    /\ hi' = r.hi
    /\ inner' = [ok |-> r.ok, val |-> r.val, err |-> r.err]
    /\ ret' = IF r.ok THEN ret ELSE [ok |-> FALSE, val |-> Unit, err |-> r.err]
    /\ UNCHANGED <<tokens, easy_ll>>

Peek == Running /\ Method("peek", peek(tokens, position))

NextToken == Running /\ Method("next", next(tokens, position))

Consume ==
    /\ Running
    /\ \E expected \in Expected : Method("consume", consume(tokens, position, expected))

IsDone == Running /\ Method("is_done", Ok(position, position, is_done(tokens, position)))

RunRule(rule, toks, p) ==
    CASE rule = "expr" -> expr(toks, p)
      [] rule = "type_" -> type_(toks, p)
      [] rule = "macro_" -> macro_(toks, p)
      [] OTHER -> symbol(toks, p)

RuleStep ==
    /\ Running
    /\ \E rule \in {"expr", "type_", "macro_", "symbol"} :
          Method(rule, RunRule(rule, tokens, position))

NextCursor == Next \/ Peek \/ NextToken \/ Consume \/ IsDone \/ RuleStep

SpecCursor == InitCursor /\ [][NextCursor]_vars

---------------------------------------------------------------------------
(* Properties *)

Called == pc # "start"
AtEndOfInput == Tok(tokens, position) = TEndOfInput

(* C1: each of parse_program, parse_macros, parse_expr and parse_type
   succeeds if and only if its grammar rule succeeds and leaves the cursor on
   the EndOfInput token, and then returns the rule's value; when the rule
   succeeds with another token under the cursor, the call returns the error
   "Unexpected token: <that token>". *)
C1_EntryPointReadsToEndOfInput ==
    Called =>
        /\ ret.ok <=> (inner.ok /\ AtEndOfInput)
        /\ ret.ok => ret.val = inner.val
        /\ (inner.ok /\ ~AtEndOfInput) =>
              ret.err = WeldError("Unexpected token: {}", Tok(tokens, position))

\* 'macro a() = b; a() + b;' given to parse_program: the rule succeeds, the
\* last `;` remains
C1_Witness ==
    /\ pc = "parse_program"
    /\ tokens = Eoi(<<TMacro, Id("a"), TOpenParen, TCloseParen, TEqual, Id("b"), TSemicolon,
                      Id("a"), TOpenParen, TCloseParen, TPlus, Id("b"), TSemicolon>>)
    /\ inner.ok
    /\ ~ret.ok
    /\ ret.err = WeldError("Unexpected token: {}", TSemicolon)

---------------------------------------------------------------------------
(* The operator table the properties are stated against: the levels from the
   loosest (1) to the tightest (9), and the BinOpKind of each operator token *)

EqualityTokens == {TEqualEqual, TNotEqual}
ComparisonTokens == {TLessThan, TLessThanOrEqual, TGreaterThan, TGreaterThanOrEqual}

Level(tok) ==
    CASE tok = TLogicalOr -> 1
      [] tok = TLogicalAnd -> 2
      [] tok = TBar -> 3
      [] tok = TXor -> 4
      [] tok = TBitwiseAnd -> 5
      [] tok \in EqualityTokens -> 6
      [] tok \in ComparisonTokens -> 7
      [] tok \in {TPlus, TMinus} -> 8
      [] tok \in {TTimes, TDivide, TModulo} -> 9
      [] OTHER -> 0

KindOf(tok) ==
    CASE tok = TLogicalOr -> "LogicalOr"
      [] tok = TLogicalAnd -> "LogicalAnd"
      [] tok = TBar -> "BitwiseOr"
      [] tok = TXor -> "Xor"
      [] tok = TBitwiseAnd -> "BitwiseAnd"
      [] tok = TEqualEqual -> "Equal"
      [] tok = TNotEqual -> "NotEqual"
      [] tok = TLessThan -> "LessThan"
      [] tok = TLessThanOrEqual -> "LessThanOrEqual"
      [] tok = TGreaterThan -> "GreaterThan"
      [] tok = TGreaterThanOrEqual -> "GreaterThanOrEqual"
      [] tok = TPlus -> "Add"
      [] tok = TMinus -> "Subtract"
      [] tok = TTimes -> "Multiply"
      [] tok = TDivide -> "Divide"
      [] tok = TModulo -> "Modulo"
      [] OTHER -> NoOp

TokenOf(kind) == CHOOSE tok \in BinOpTokens : KindOf(tok) = kind

IsOperand(tok) == tok.k = "TIdent" \/ tok.k = "TI32Literal"
Leaf(tok) == IF tok.k = "TIdent" THEN Ident(Symbol(tok.name)) ELSE I32Literal(tok.value)
TokenOfLeaf(e) == IF e.kind = "Ident" THEN TIdent(e.symbol.name) ELSE TI32Literal(e.value)

\* toks is  operand (operator operand)* EndOfInput
IsFlat(toks) ==
    /\ Len(toks) % 2 = 0
    /\ \A i \in 1..(Len(toks) - 1) :
          IF i % 2 = 1 THEN IsOperand(toks[i]) ELSE toks[i] \in BinOpTokens

\* The tokens of an expression tree of operands and BinOps, left to right
RECURSIVE InOrder(_)
InOrder(e) ==
    IF e.kind = "BinOp"
    THEN InOrder(e.left) \o <<TokenOf(e.op)>> \o InOrder(e.right)
    ELSE <<TokenOfLeaf(e)>>

\* Every BinOp has on its left only operators that bind at least as tightly,
\* and on its right only operators that bind tighter.  With InOrder(e) given
\* this fixes e: it is the grouping of the table with ties grouped to the left.
RECURSIVE TighterFirst(_)
TighterFirst(e) ==
    IF e.kind # "BinOp" THEN TRUE
    ELSE /\ e.left.kind = "BinOp" => Level(TokenOf(e.left.op)) >= Level(TokenOf(e.op))
         /\ e.right.kind = "BinOp" => Level(TokenOf(e.right.op)) > Level(TokenOf(e.op))
         /\ TighterFirst(e.left)
         /\ TighterFirst(e.right)

Opening == {TOpenParen, TOpenBracket, TOpenBrace}
Closing == {TCloseParen, TCloseBracket, TCloseBrace}

\* The number of brackets open before the i-th token
Depth(toks, i) ==
    Cardinality({ k \in 1..(i - 1) : toks[k] \in Opening })
        - Cardinality({ k \in 1..(i - 1) : toks[k] \in Closing })

\* The i-th and the j-th token are operators of the non-associative level
\* `level` chained without parentheses: they stand in the same bracket, and
\* between them, outside deeper brackets, stand only operands, brackets and
\* operators that bind at least as tightly as `level`
Chained(toks, i, j, level) ==
    /\ i < j
    /\ Level(toks[i]) = level
    /\ Level(toks[j]) = level
    /\ Depth(toks, j) = Depth(toks, i)
    /\ \A k \in (i + 1)..(j - 1) :
          /\ Depth(toks, k) >= Depth(toks, i)
          /\ toks[k] \in Closing => Depth(toks, k) > Depth(toks, i)
          /\ (Depth(toks, k) = Depth(toks, i) /\ toks[k] \notin Opening) =>
                IsOperand(toks[k]) \/ Level(toks[k]) >= level

HasChain(toks, level) ==
    \E i \in 1..Len(toks) : \E j \in (i + 1)..Len(toks) : Chained(toks, i, j, level)

EqualityLevel == 6
ComparisonLevel == 7

NoChain(toks) == ~HasChain(toks, EqualityLevel) /\ ~HasChain(toks, ComparisonLevel)

(* C2: parse_expr groups the tighter operator first whatever the textual
   order of the operators.  For every expression  operand (operator operand)*
   without a chain of == / != or of < / <= / > / >= the parse succeeds, the
   tree lists the tokens in their textual order, and every BinOp has operators
   at least as tight on its left and strictly tighter ones on its right.
   'a || b && c | d ^ e & f == g > h + i * j' is the right nesting,
   'a * b + c > d == e & f ^ g | h && i || j' the left nesting, and 'a>b==c'
   is ((a>b)==c). *)
C2_TighterOperatorsGroupFirst ==
    pc = "parse_expr" =>
        /\ (IsFlat(tokens) /\ NoChain(tokens)) =>
              /\ ret.ok
              /\ Eoi(InOrder(ret.val)) = tokens
              /\ TighterFirst(ret.val)
        /\ tokens = Eoi(<<Id("a"), TLogicalOr, Id("b"), TLogicalAnd, Id("c"), TBar, Id("d"),
                          TXor, Id("e"), TBitwiseAnd, Id("f"), TEqualEqual, Id("g"),
                          TGreaterThan, Id("h"), TPlus, Id("i"), TTimes, Id("j")>>) =>
              ret.val =
                BinOp("LogicalOr", Var("a"),
                  BinOp("LogicalAnd", Var("b"),
                    BinOp("BitwiseOr", Var("c"),
                      BinOp("Xor", Var("d"),
                        BinOp("BitwiseAnd", Var("e"),
                          BinOp("Equal", Var("f"),
                            BinOp("GreaterThan", Var("g"),
                              BinOp("Add", Var("h"),
                                BinOp("Multiply", Var("i"), Var("j"))))))))))
        /\ tokens = Eoi(<<Id("a"), TTimes, Id("b"), TPlus, Id("c"), TGreaterThan, Id("d"),
                          TEqualEqual, Id("e"), TBitwiseAnd, Id("f"), TXor, Id("g"), TBar,
                          Id("h"), TLogicalAnd, Id("i"), TLogicalOr, Id("j")>>) =>
              ret.val =
                BinOp("LogicalOr",
                  BinOp("LogicalAnd",
                    BinOp("BitwiseOr",
                      BinOp("Xor",
                        BinOp("BitwiseAnd",
                          BinOp("Equal",
                            BinOp("GreaterThan",
                              BinOp("Add",
                                BinOp("Multiply", Var("a"), Var("b")),
                                Var("c")),
                              Var("d")),
                            Var("e")),
                          Var("f")),
                        Var("g")),
                      Var("h")),
                    Var("i")),
                  Var("j"))
        /\ tokens = Eoi(<<Id("a"), TGreaterThan, Id("b"), TEqualEqual, Id("c")>>) =>
              ret.val = BinOp("Equal", BinOp("GreaterThan", Var("a"), Var("b")), Var("c"))

\* 'a + b * c == d': the operator written last but one is grouped first
C2_Witness ==
    /\ pc = "parse_expr"
    /\ tokens = Eoi(<<Id("a"), TPlus, Id("b"), TTimes, Id("c"), TEqualEqual, Id("d")>>)
    /\ ret.ok
    /\ ret.val = BinOp("Equal",
                       BinOp("Add", Var("a"), BinOp("Multiply", Var("b"), Var("c"))),
                       Var("d"))

\* e1 op1 e2 op2 ... opn e(n+1), folded to the left: toks[2n] is opn
RECURSIVE LeftFold(_, _)
LeftFold(toks, n) ==
    IF n = 0 THEN Leaf(toks[1])
    ELSE BinOp(KindOf(toks[2 * n]), LeftFold(toks, n - 1), Leaf(toks[2 * n + 1]))

AssociativeLevels == {1, 2, 3, 4, 5, 8, 9}

\* all operators of toks are of one associative level
OneLevelChain(toks) ==
    /\ IsFlat(toks)
    /\ \E level \in AssociativeLevels :
          \A i \in 1..(Len(toks) - 1) : i % 2 = 0 => Level(toks[i]) = level

(* C3: a chain of operators of one level among ||, &&, |, ^, &, {+,-} and
   {*,/,%} is folded to the left, for any chain length:
   e1 op1 e2 op2 e3 is BinOp(op2, BinOp(op1, e1, e2), e3), and
   '10 - 2 - 3 + 1' is (((10-2)-3)+1). *)
C3_OneLevelChainsFoldLeft ==
    pc = "parse_expr" =>
        /\ OneLevelChain(tokens) =>
              ret.ok /\ ret.val = LeftFold(tokens, (Len(tokens) - 2) \div 2)
        /\ tokens = Eoi(<<TI32Literal(10), TMinus, TI32Literal(2), TMinus, TI32Literal(3),
                          TPlus, TI32Literal(1)>>) =>
              ret.val = BinOp("Add",
                              BinOp("Subtract",
                                    BinOp("Subtract", I32Literal(10), I32Literal(2)),
                                    I32Literal(3)),
                              I32Literal(1))

\* 'a / b % c * d'
C3_Witness ==
    /\ pc = "parse_expr"
    /\ tokens = Eoi(<<Id("a"), TDivide, Id("b"), TModulo, Id("c"), TTimes, Id("d")>>)
    /\ ret.ok
    /\ ret.val.op = "Multiply"
    /\ ret.val.left.op = "Modulo"
    /\ ret.val.left.left.op = "Divide"

(* C4: parse_expr returns an error for every input in which two operators of
   the equality level (==, !=) or two operators of the comparison level
   (<, <=, >, >=) are chained without parentheses, also when the chain stands
   inside parentheses, a vector or struct literal, an argument list. *)
C4_NonAssociativeChainsAreErrors ==
    (pc = "parse_expr" /\ ~NoChain(tokens)) => ~ret.ok

\* '[a == b != c]'
C4_Witness ==
    /\ pc = "parse_expr"
    /\ tokens = Eoi(<<TOpenBracket, Id("a"), TEqualEqual, Id("b"), TNotEqual, Id("c"),
                      TCloseBracket>>)
    /\ ~ret.ok
    /\ ret.err = WeldError("Expected ',' or ']'", NoToken)

IsFieldIndex(tok) == tok.k = "TIdent" /\ starts_with(tok.name, "$")

(* C5: field access is accepted only in the form '.$N': after a '.' token
   the next token must be an identifier beginning with '$'; any other token
   after '.', an identifier that does not begin with '$' included (as in
   'a.b'), makes the parse return an error. *)
C5_FieldAccessOnlyWithDollar ==
    (/\ pc = "parse_expr"
     /\ \E i \in 1..(Len(tokens) - 1) : tokens[i] = TDot /\ ~IsFieldIndex(tokens[i + 1])) =>
        ~ret.ok

\* 'a.b' is accepted, and the value is the identifier a
C5_Witness ==
    /\ pc = "parse_expr"
    /\ tokens = Eoi(<<Id("a"), TDot, Id("b")>>)
    /\ ret.ok
    /\ ret.val = Var("a")

\* No character of the text stands inside more than n brackets
NestedAtMost(text, n) ==
    \A i \in 1..Len(text) :
        Cardinality({ k \in 1..i : text[k] \in {"(", "[", "{"} })
            - Cardinality({ k \in 1..i : text[k] \in {")", "]", "}"} }) <= n

\* The round trip is tried on printed texts nested at most MaxNesting deep
MaxNesting == 3

(* C6: for every input that parse_expr accepts, printing the AST with
   print_expr and parsing the printed text with parse_expr again succeeds and
   yields a structurally equal PartialExpr: same kind, children, symbols and
   attached type at every node. *)
C6_PrintParseRoundTrip ==
    (pc = "parse_expr" /\ ret.ok /\ NestedAtMost(print_expr(ret.val), MaxNesting)) =>
        /\ parse_expr_text(print_expr(ret.val)).ok
        /\ parse_expr_text(print_expr(ret.val)).val = ret.val

\* 'let a: vec[i32] = [2, 3]; a' prints as "(let a=([2,3]);a)", as the test
\* basic_parsing expects, and the text parses to a Let whose type is Unknown
C6_Witness ==
    /\ pc = "parse_expr"
    /\ tokens = Eoi(<<TLet, Id("a"), TColon, TVec, TOpenBracket, TI32, TCloseBracket, TEqual,
                      TOpenBracket, TI32Literal(2), TComma, TI32Literal(3), TCloseBracket,
                      TSemicolon, Id("a")>>)
    /\ ret.ok
    /\ ret.val.ty = Vector(Scalar("I32"))
    /\ print_expr(ret.val) = <<"(", "l", "e", "t", " ", "a", "=", "(", "[", "2", ",", "3", "]",
                               ")", ";", "a", ")">>
    /\ parse_expr_text(print_expr(ret.val)).ok
    /\ parse_expr_text(print_expr(ret.val)).val = WithTy(ret.val, Unknown)

---------------------------------------------------------------------------
(* Programs.  An input is read here as the declarations of Decls it starts
   with, followed by the rest. *)

IsPrefix(pre, toks) == Len(pre) <= Len(toks) /\ SubSeq(toks, 1, Len(pre)) = pre
StartsWithDecl(toks) == \E d \in 1..Len(Decls) : IsPrefix(Decls[d].toks, toks)
FirstDecl(toks) == CHOOSE d \in 1..Len(Decls) : IsPrefix(Decls[d].toks, toks)

\* the numbers of the declarations of Decls at the head of toks, in order
RECURSIVE LeadingDecls(_)
LeadingDecls(toks) ==
    IF StartsWithDecl(toks)
    THEN <<FirstDecl(toks)>>
            \o LeadingDecls(SubSeq(toks, Len(Decls[FirstDecl(toks)].toks) + 1, Len(toks)))
    ELSE <<>>

\* what follows them
AfterDecls(toks) == SubSeq(toks, Len(DeclToks(LeadingDecls(toks))) + 1, Len(toks))

\* the Macros these declarations declare
MacrosOf(ds) == [k \in 1..Len(ds) |-> Decls[ds[k]].macro]

NumberOfMacroTokens(toks) == Cardinality({ i \in 1..Len(toks) : toks[i] = TMacro })

(* C7: parse_program accepts zero or more macro declarations followed by
   exactly one body expression and returns Program{macros, body}: macros
   holds one Macro per declaration, in source order, each with its name, its
   parameters in source order and its body, and body is the expression after
   the last declaration.  An input without a body expression, or with a
   `macro` keyword after the body has started, is an error. *)
C7_ProgramIsMacrosThenOneBody ==
    pc = "parse_program" =>
        /\ \A b \in 2..Len(Bodies) :
              AfterDecls(tokens) = Eoi(Bodies[b].toks) =>
                  /\ ret.ok
                  /\ ret.val = Program(MacrosOf(LeadingDecls(tokens)), Bodies[b].expr)
        /\ AfterDecls(tokens) = <<TEndOfInput>> => ~ret.ok
        /\ \A b \in 2..Len(Bodies) : \A t \in 2..Len(Tails) :
              AfterDecls(tokens) = Eoi(Bodies[b].toks \o Tails[t]) => ~ret.ok
        /\ (\E i \in 2..Len(tokens) : tokens[i] = TMacro /\ tokens[i - 1] # TSemicolon) =>
              ~ret.ok
        /\ ret.ok => Len(ret.val.macros) = NumberOfMacroTokens(tokens)

\* 'macro c(x, y,) = |z| x; macro a(x) = x + x; a(b)'
C7_Witness ==
    /\ pc = "parse_program"
    /\ tokens = Eoi(Decls[3].toks \o Decls[1].toks \o Bodies[2].toks)
    /\ ret.ok
    /\ ret.val.macros = <<Decls[3].macro, Decls[1].macro>>
    /\ ret.val.body = Apply(Var("a"), <<Var("b")>>)

\* The header of the declaration whose `macro` is the i-th token:
\* name ( p1 , ... ) =  with identifiers for the name and the parameters
RECURSIVE ParamsThenEqual(_, _)
ParamsThenEqual(toks, j) ==
    IF j >= Len(toks) THEN FALSE
    ELSE IF toks[j] = TCloseParen THEN toks[j + 1] = TEqual
    ELSE /\ toks[j].k = "TIdent"
         /\ \/ toks[j + 1] = TComma /\ ParamsThenEqual(toks, j + 2)
            \/ toks[j + 1] = TCloseParen /\ ParamsThenEqual(toks, j + 1)

HeaderAt(toks, i) ==
    /\ i + 2 < Len(toks)
    /\ toks[i + 1].k = "TIdent"
    /\ toks[i + 2] = TOpenParen
    /\ ParamsThenEqual(toks, i + 3)

\* The places of the name, the `(`, the `)`, the `=` and the last `;` in the
\* tokens of a declaration
FormPlaces(decl) ==
    {2, 3, Len(decl)}
        \cup { i \in 1..Len(decl) : decl[i] = TCloseParen \/ (i > 1 /\ decl[i - 1] = TCloseParen) }

(* C8: a macro declaration is accepted only in the form
   'macro name ( p1 , ... ) = body ;' with zero or more identifier
   parameters: a missing name, '(', ')', '=' or trailing ';', or a parameter
   that is not an identifier, makes the whole parse fail; the body is a full
   expression and may be a let or a lambda. *)
C8_MacroDeclarationForm ==
    (pc = "parse_program" \/ pc = "parse_macros") =>
        /\ ret.ok =>
              /\ \A i \in 1..Len(tokens) : tokens[i] = TMacro => HeaderAt(tokens, i)
              /\ \A i \in 2..Len(tokens) : tokens[i] = TMacro => tokens[i - 1] = TSemicolon
              /\ (pc = "parse_macros" /\ Len(tokens) > 1) =>
                    tokens[Len(tokens) - 1] = TSemicolon
              /\ \A d \in 1..Len(Decls) : \A i \in FormPlaces(Decls[d].toks) :
                    \A b \in 1..Len(Bodies) :
                        tokens # Eoi(Without(Decls[d].toks, i) \o Bodies[b].toks)
        /\ \A d \in 1..Len(Decls) :
              (pc = "parse_macros" /\ tokens = Eoi(Decls[d].toks)) =>
                  ret.ok /\ ret.val = <<Decls[d].macro>>

\* 'macro a(x) x + x; a(b)': the `=` is missing
C8_Witness ==
    /\ pc = "parse_program"
    /\ tokens = Eoi(<<TMacro, Id("a"), TOpenParen, Id("x"), TCloseParen,
                      Id("x"), TPlus, Id("x"), TSemicolon,
                      Id("a"), TOpenParen, Id("b"), TCloseParen>>)
    /\ ~ret.ok
    /\ ret.err = WeldError("Expected '{}'", TEqual)

(* C9: parse_macros succeeds exactly on inputs that consist of macro
   declarations only: the empty input gives the empty list, n declarations
   give the list of the n macros in source order, and a body expression or
   any other token after the last declaration gives an error. *)
C9_MacrosOnly ==
    pc = "parse_macros" =>
        /\ tokens = <<TEndOfInput>> => ret.ok /\ ret.val = <<>>
        /\ AfterDecls(tokens) = <<TEndOfInput>> =>
              ret.ok /\ ret.val = MacrosOf(LeadingDecls(tokens))
        /\ (AfterDecls(tokens) # <<TEndOfInput>> /\ AfterDecls(tokens)[1] # TMacro) => ~ret.ok
        /\ ret.ok =>
              /\ Len(ret.val) = NumberOfMacroTokens(tokens)
              /\ Len(tokens) > 1 => tokens[1] = TMacro /\ tokens[Len(tokens) - 1] = TSemicolon

\* 'macro b() = 5; macro d(x, y) = let t = x; t;'
C9_Witness ==
    /\ pc = "parse_macros"
    /\ tokens = Eoi(Decls[2].toks \o Decls[4].toks)
    /\ ret.ok
    /\ ret.val = <<Decls[2].macro, Decls[4].macro>>

(* C10: on a slice that ends with EndOfInput no call of peek() or next()
   reads an index >= len(tokens), in any rule, on any error path and in the
   trailing-token check; and when the EndOfInput token has been consumed
   (position = len) the call returns an error and EndOfInput is the last
   token that was read. *)
C10_NeverIndexesPastTheEnd ==
    /\ tokens[Len(tokens)] = TEndOfInput
    /\ hi < Len(tokens)
    /\ position <= Len(tokens)
    /\ position = Len(tokens) =>
          /\ Called
          /\ ~inner.ok
          /\ ~ret.ok
          /\ hi = Len(tokens) - 1

\* 'macro b() = 5' without its `;`: consume(TSemicolon) takes EndOfInput
C10_Witness ==
    /\ pc = "parse_macros"
    /\ tokens = Eoi(<<TMacro, Id("b"), TOpenParen, TCloseParen, TEqual, TI32Literal(5)>>)
    /\ position = Len(tokens)
    /\ ret.err = WeldError("Expected '{}'", TSemicolon)

---------------------------------------------------------------------------
(* Errors *)

\* the grammar rule an entry point starts
Rule(entry, toks) ==
    CASE entry = "parse_program" -> program(toks, 0)
      [] entry = "parse_macros" -> macros(toks, 0)
      [] entry = "parse_expr" -> expr(toks, 0)
      [] OTHER -> type_(toks, 0)

\* the messages that name the token that was read
NamesTheToken ==
    { "Expected identifier but got '{}'", "Expected type but got '{}'",
      "Expected field index but got '{}'", "Expected expression but got '{}'" }

(* C11: the first error ends the parse.  When the grammar rule of an entry
   point returns an error, the entry point returns that same error and no
   value, the trailing-token check does not turn it into 'Unexpected token',
   the cursor stands on or right after the last token that was read, the
   error names that token when it names one, and the same call on the tokens
   up to that one gives the same error at the same cursor: nothing after the
   offending token is consumed or looked at. *)
C11_FirstErrorEndsTheParse ==
    (Called /\ ~inner.ok) =>
        /\ ~ret.ok
        /\ ret.err = inner.err
        /\ ret.val = Unit
        /\ ret.err.msg # "Unexpected token: {}"
        /\ hi >= 0
        /\ position \in {hi, hi + 1}
        /\ ret.err.msg \in NamesTheToken => ret.err.tok = tokens[hi + 1]
        /\ ~Rule(pc, SubSeq(tokens, 1, hi + 1)).ok
        /\ Rule(pc, SubSeq(tokens, 1, hi + 1)).err = ret.err
        /\ Rule(pc, SubSeq(tokens, 1, hi + 1)).pos = position

\* 'macro a(x) = x + ; macro b() = 5; a(b)': the error of the first
\* declaration's body is the result, twelve tokens are left unread
C11_Witness ==
    /\ pc = "parse_program"
    /\ tokens = Eoi(Without(Decls[1].toks, 9) \o Decls[2].toks \o Bodies[2].toks)
    /\ ~ret.ok
    /\ ret.err = WeldError("Expected expression but got '{}'", TSemicolon)
    /\ position = 9
    /\ ret.val = Unit

---------------------------------------------------------------------------
(* Types *)

\* The tokens that start a type
TypeStart == {TI32, TI64, TF32, TF64, TBool, TVec, TAppender, TOpenBrace, TQuestion}

\* toks without the `,` that stand right before a `}`
RECURSIVE WithoutTrailingCommas(_)
WithoutTrailingCommas(toks) ==
    IF Len(toks) < 2 THEN toks
    ELSE IF toks[1] = TComma /\ toks[2] = TCloseBrace THEN WithoutTrailingCommas(Tail(toks))
    ELSE <<toks[1]>> \o WithoutTrailingCommas(Tail(toks))

(* C12: parse_type maps i32, i64, f32, f64, bool to the Scalar of that name,
   vec[T] to Vector(T), appender[T] to Builder(Appender(T)), {T1, ..., Tn} to
   the Struct of the n fields in source order ({} has no field) and ? to
   Unknown, at every nesting depth: every type written in this syntax is
   accepted, Unknown at any position included, the type returned is the one
   that was written, and an input that starts with any other token gives the
   error 'Expected type but got <token>'. *)
C12_ParseTypeReadsTheTypeSyntax ==
    pc = "parse_type" =>
        /\ tokens \in TypeInputs => ret.ok
        /\ ret.ok => Eoi(TypeToks(ret.val)) = WithoutTrailingCommas(tokens)
        /\ tokens[1] \notin TypeStart =>
              /\ ~ret.ok
              /\ ret.err = WeldError("Expected type but got '{}'", tokens[1])
        /\ tokens = <<TOpenBrace, TCloseBrace, TEndOfInput>> => ret.val = Struct(<<>>)
        /\ tokens = <<TOpenBrace, TI32, TComma, TVec, TOpenBracket, TVec, TOpenBracket, TQuestion,
                      TCloseBracket, TCloseBracket, TComma, TQuestion, TCloseBrace,
                      TEndOfInput>> =>
              ret.val = Struct(<<Scalar("I32"), Vector(Vector(Unknown)), Unknown>>)

\* '{appender[?], i32}'
C12_Witness ==
    /\ pc = "parse_type"
    /\ tokens = <<TOpenBrace, TAppender, TOpenBracket, TQuestion, TCloseBracket, TComma, TI32,
                  TCloseBrace, TEndOfInput>>
    /\ ret.ok
    /\ ret.val = Struct(<<Builder(Appender(Unknown)), Scalar("I32")>>)

---------------------------------------------------------------------------
(* The nodes of a returned AST *)

Range(seq) == { seq[k] : k \in 1..Len(seq) }

\* the sub-expressions a node holds
Children(e) ==
    CASE e.kind = "BinOp" -> {e.left, e.right}
      [] e.kind = "Let" -> {e.value, e.body}
      [] e.kind = "Lambda" -> {e.body}
      [] e.kind = "GetField" -> {e.expr}
      [] e.kind = "Apply" -> {e.func} \cup Range(e.params)
      [] e.kind = "MakeVector" -> Range(e.elems)
      [] e.kind = "MakeStruct" -> Range(e.elems)
      [] e.kind = "If" -> {e.cond, e.on_true, e.on_false}
      [] e.kind = "For" -> {e.data, e.builders, e.func}
      [] e.kind = "Merge" -> {e.builder, e.value}
      [] e.kind = "Res" -> {e.builder}
      [] OTHER -> {}

RECURSIVE Nodes(_)
Nodes(e) == {e} \cup UNION { Nodes(c) : c \in Children(e) }

\* the expressions of what the entry point returned: the expression, or the
\* bodies of the macros and the body of the program
Roots ==
    IF ~ret.ok THEN {}
    ELSE CASE pc = "parse_expr" -> {ret.val}
           [] pc = "parse_program" ->
                 {ret.val.body} \cup { m.body : m \in Range(ret.val.macros) }
           [] pc = "parse_macros" -> { m.body : m \in Range(ret.val) }
           [] OTHER -> {}

ReturnedNodes == UNION { Nodes(e) : e \in Roots }

(* C13: every NewBuilder node of a returned AST has a Builder as its attached
   type: 'appender[T]' gives Builder(Appender(T)), a bare 'appender' gives
   Builder(Appender(Unknown)). *)
C13_NewBuilderCarriesItsBuilderType ==
    \A n \in ReturnedNodes : n.kind = "NewBuilder" => n.ty.t = "Builder"

\* 'appender: i32 + b': the ascription replaces the builder type
C13_Witness ==
    /\ pc = "parse_expr"
    /\ tokens = Eoi(<<TAppender, TColon, TI32, TPlus, Id("b")>>)
    /\ ret.ok
    /\ ret.val = BinOp("Add", WithTy(NewBuilder, Scalar("I32")), Var("b"))

---------------------------------------------------------------------------
(* Lambdas, lets and ascriptions *)

(* C14: a lambda is accepted with the token '||' and with
   '|p1[:T1], ..., pn[:Tn]|'.  '||' gives no parameter, the bar form gives
   the parameters in source order, an omitted annotation being Unknown, and
   the body is a full expression that extends as far as possible: an accepted
   input that starts with '|' or '||' is a Lambda as a whole, '|| a||b' is
   Lambda([], a||b) and '|a, b:i32| a+b' has the parameters (a:?, b:i32). *)
C14_LambdaForms ==
    (pc = "parse_expr" /\ tokens[1] \in {TBar, TLogicalOr}) =>
        /\ \A c \in LambdaCases : tokens = Eoi(c.toks) => ret.ok /\ ret.val = c.expr
        /\ ret.ok =>
              /\ ret.val.kind = "Lambda"
              /\ tokens[1] = TLogicalOr => ret.val.params = <<>>
        /\ tokens = Eoi(<<TLogicalOr, Id("a"), TLogicalOr, Id("b")>>) =>
              ret.val = Lambda(<<>>, BinOp("LogicalOr", Var("a"), Var("b")))
        /\ tokens = Eoi(<<TBar, Id("a"), TComma, Id("b"), TColon, TI32, TBar,
                          Id("a"), TPlus, Id("b")>>) =>
              ret.val = Lambda(<<PartialParameter(Symbol(<<"a">>), Unknown),
                                 PartialParameter(Symbol(<<"b">>), Scalar("I32"))>>,
                               BinOp("Add", Var("a"), Var("b")))

\* '|a: vec[?], b| |x| x'
C14_Witness ==
    /\ pc = "parse_expr"
    /\ tokens = Eoi(<<TBar, Id("a"), TColon, TVec, TOpenBracket, TQuestion, TCloseBracket,
                      TComma, Id("b"), TBar, TBar, Id("x"), TBar, Id("x")>>)
    /\ ret.ok
    /\ ret.val.params = <<PartialParameter(Symbol(<<"a">>), Vector(Unknown)),
                          PartialParameter(Symbol(<<"b">>), Unknown)>>
    /\ ret.val.body.kind = "Lambda"

---------------------------------------------------------------------------
(* Progress.  The number of next() calls made between two points of a parse
   is the difference of the cursor at these points. *)

EntryPoints == {"parse_program", "parse_macros", "parse_expr", "parse_type"}

\* r is what a rule returned that was entered at p: it has consumed a token
\* and has not moved the cursor beyond the slice
Consumed(toks, p, r) == r.pos > p /\ r.pos <= Len(toks)

\* Each rule entered at p
RulesConsume(toks, p) ==
    /\ Consumed(toks, p, expr(toks, p))
    /\ Consumed(toks, p, let_expr(toks, p))
    /\ Consumed(toks, p, lambda_expr(toks, p))
    /\ Consumed(toks, p, operator_expr(toks, p))
    /\ Consumed(toks, p, leaf_expr(toks, p))
    /\ Consumed(toks, p, type_(toks, p))
    /\ Consumed(toks, p, macro_(toks, p))
    /\ Consumed(toks, p, symbol(toks, p))

\* The rest of each loop when its test holds at p, that is when one more
\* iteration starts there
LoopsConsume(toks, p) ==
    /\ Tok(toks, p) = TMacro => Consumed(toks, p, macros_while(toks, p, <<>>))
    /\ Tok(toks, p) # TCloseParen =>
          /\ Consumed(toks, p, macro_params_while(toks, p, <<>>))
          /\ Consumed(toks, p, apply_params_while(toks, p, <<>>))
    /\ Tok(toks, p) # TBar => Consumed(toks, p, lambda_params_while(toks, p, <<>>))
    /\ Tok(toks, p) # TCloseBracket => Consumed(toks, p, make_vector_while(toks, p, <<>>))
    /\ Tok(toks, p) # TCloseBrace =>
          /\ Consumed(toks, p, make_struct_while(toks, p, <<>>))
          /\ Consumed(toks, p, type_struct_while(toks, p, <<>>))
    /\ (Tok(toks, p) = TDot \/ Tok(toks, p) = TOpenParen) =>
          Consumed(toks, p, apply_while(toks, p, Var("a")))

(* C15: each entry point ends with a value or with an error on every token
   sequence that ends with EndOfInput, after at most len(tokens) calls of
   next(): wherever a rule is entered, it has consumed at least one token when
   it returns (so that a rule that reaches itself again has consumed one), and
   every iteration of every loop consumes at least one token; no rule moves
   the cursor beyond len(tokens). *)
C15_EveryParseTerminates ==
    /\ pc \in EntryPoints =>
          /\ ret.ok \/ ret.err # NoError
          /\ position <= Len(tokens)
    /\ pc = "parse_expr" =>
          \A p \in 0..(Len(tokens) - 1) :
              RulesConsume(tokens, p) /\ LoopsConsume(tokens, p)

\* 'a.$0(0,1).$1()': the loop of apply_expr runs four times, the whole parse
\* calls next() once for each token but EndOfInput
C15_Witness ==
    /\ pc = "parse_expr"
    /\ tokens = Eoi(<<Id("a"), TDot, Field("0"), TOpenParen, TI32Literal(0), TComma,
                      TI32Literal(1), TCloseParen, TDot, Field("1"), TOpenParen, TCloseParen>>)
    /\ ret.ok
    /\ position = Len(tokens) - 1
    /\ apply_while(tokens, 1, Var("a")).pos = position

(* C16: the cursor is 0 when the parser is created, and every step of a parse
   leaves it where it is or moves it forward: peek() and is_done() leave it
   unchanged, next() and consume() add 1, and a rule returns with the cursor
   at or after the place it was entered at, the token it read last being the
   one under the cursor or the one before it.  No step decreases or resets
   the cursor, so no token is read again once it is consumed. *)
C16_CursorOnlyAdvances ==
    /\ position = 0
    /\ [][/\ position' >= position
          /\ pc' \in {"peek", "is_done"} => position' = position
          /\ pc' \in {"next", "consume"} => position' = position + 1
          /\ hi' >= position
          /\ hi' \in {position' - 1, position'}]_vars

\* 'a + b': next(), next(), then the rule expr from the token b
C16_Witness ==
    /\ tokens = Eoi(<<Id("a"), TPlus, Id("b")>>)
    /\ pc = "expr"
    /\ inner.ok
    /\ inner.val = Var("b")
    /\ position = 3
    /\ hi = 3

\* The tokens between the i-th and the j-th are a type
TypeBetween(toks, i, j) == Eoi(SubSeq(toks, i + 1, j - 1)) \in TypeInputs

\* e : T : U with nothing around it
TwiceAscribedBare ==
    { Eoi(Ascribed(Ascribed(Ascribable[e].toks, ty), second)) :
      e \in 1..Len(Ascribable), ty \in AscribedTypes, second \in AscribedTypes }

\* `: T :` somewhere in toks
AscribedTwice(toks) ==
    \E i \in 1..Len(toks) :
        /\ toks[i] = TColon
        /\ \E j \in (i + 2)..Len(toks) : toks[j] = TColon /\ TypeBetween(toks, i, j)

(* C17: an ascription is applied at most once to an application-level
   expression.  In 'e : T : U' the second ':' is taken by no rule, and
   parse_expr returns an error, whatever stands around the expression; with
   parentheses, '(e : T) : U', the input is accepted. *)
C17_AscriptionIsSingleShot ==
    pc = "parse_expr" =>
        /\ AscribedTwice(tokens) => ~ret.ok
        /\ tokens \in TwiceAscribedBare => ret.err = WeldError("Unexpected token: {}", TColon)
        /\ \A c \in ReascribedCases : tokens = Eoi(c.toks) => ret.ok /\ ret.val = c.expr

\* '(a.$0 : i32 : ?)'
C17_Witness ==
    /\ pc = "parse_expr"
    /\ tokens = Eoi(<<TOpenParen, Id("a"), TDot, Field("0"), TColon, TI32, TColon, TQuestion,
                      TCloseParen>>)
    /\ ~ret.ok
    /\ ret.err = WeldError("Expected ')'", NoToken)
    /\ position = 7

\* The number of places of an AST that hold a type other than Unknown: nodes
\* other than NewBuilder, and lambda parameters
RECURSIVE TypedPlaces(_), TypedPlacesOf(_)
TypedPlaces(e) ==
    (IF e.ty # Unknown /\ e.kind # "NewBuilder" THEN 1 ELSE 0)
        + (IF e.kind = "Lambda"
           THEN Cardinality({ k \in 1..Len(e.params) : e.params[k].ty # Unknown })
           ELSE 0)
        + (CASE e.kind = "BinOp" -> TypedPlaces(e.left) + TypedPlaces(e.right)
             [] e.kind = "Let" -> TypedPlaces(e.value) + TypedPlaces(e.body)
             [] e.kind = "Lambda" -> TypedPlaces(e.body)
             [] e.kind = "GetField" -> TypedPlaces(e.expr)
             [] e.kind = "Apply" -> TypedPlaces(e.func) + TypedPlacesOf(e.params)
             [] e.kind = "MakeVector" -> TypedPlacesOf(e.elems)
             [] e.kind = "MakeStruct" -> TypedPlacesOf(e.elems)
             [] e.kind = "If" ->
                   TypedPlaces(e.cond) + TypedPlaces(e.on_true) + TypedPlaces(e.on_false)
             [] e.kind = "For" ->
                   TypedPlaces(e.data) + TypedPlaces(e.builders) + TypedPlaces(e.func)
             [] e.kind = "Merge" -> TypedPlaces(e.builder) + TypedPlaces(e.value)
             [] e.kind = "Res" -> TypedPlaces(e.builder)
             [] OTHER -> 0)

TypedPlacesOf(es) ==
    IF Len(es) = 0 THEN 0 ELSE TypedPlaces(Head(es)) + TypedPlacesOf(Tail(es))

NumberOfColons(toks) == Cardinality({ i \in 1..Len(toks) : toks[i] = TColon })

\* The inputs of AscribedInputs, each with the expression it stands for
AscribedCases ==
    UNION { { [toks |-> Eoi(Ascribed(Ascribable[e].toks, ty)),
               expr |-> WithTy(Ascribable[e].expr, ty)] } \cup
            UNION { { [toks |-> Eoi(Ascribed(Ascribable[e].toks, ty) \o <<op, Id("b")>>),
                       expr |-> BinOp(KindOf(op), WithTy(Ascribable[e].expr, ty), Var("b"))],
                      [toks |-> Eoi(<<Id("b"), op>> \o Ascribed(Ascribable[e].toks, ty)),
                       expr |-> BinOp(KindOf(op), Var("b"), WithTy(Ascribable[e].expr, ty))] } :
                    op \in BinOpTokens } :
            e \in 1..Len(Ascribable), ty \in AscribedTypes }

(* C18: a type is attached only to the node the user ascribed.  'e : T'
   binds tighter than every binary operator: in 'e : T op b' and in
   'b op e : T' the type is attached to e alone, and b and the BinOp have type
   Unknown ('a: i32 + b' is BinOp(Add, a:i32, b)).  No type comes from
   elsewhere: a returned AST holds at most as many types other than Unknown,
   the builder types of NewBuilder nodes aside, as the input has ':' tokens,
   and none when the input has no ':'. *)
C18_TypesOnlyWhereAscribed ==
    pc = "parse_expr" =>
        /\ ret.ok => TypedPlaces(ret.val) <= NumberOfColons(tokens)
        /\ NumberOfColons(tokens) = 1 =>
              \A c \in AscribedCases : tokens = c.toks => ret.ok /\ ret.val = c.expr
        /\ tokens = Eoi(<<Id("a"), TColon, TI32, TPlus, Id("b")>>) =>
              ret.val = BinOp("Add", WithTy(Var("a"), Scalar("I32")), Var("b"))

\* 'b * f(x) : vec[f64]': the type is on the call, not on the product
C18_Witness ==
    /\ pc = "parse_expr"
    /\ tokens = Eoi(<<Id("b"), TTimes, Id("f"), TOpenParen, Id("x"), TCloseParen, TColon,
                      TVec, TOpenBracket, TF64, TCloseBracket>>)
    /\ ret.ok
    /\ ret.val.ty = Unknown
    /\ ret.val.left.ty = Unknown
    /\ ret.val.right.ty = Vector(Scalar("F64"))
    /\ ret.val.right.func.ty = Unknown

(* C19: in 'let name : T = value ; body' the annotation T is the attached
   type of the Let node itself, not of the value, of the body or of the
   symbol, and the type of the Let is Unknown when the annotation is omitted;
   the Let holds name, value and body as written; without the '=' or without
   the ';' the input is an error. *)
C19_LetAnnotationIsOnTheLet ==
    pc = "parse_expr" =>
        /\ tokens[1] = TLet =>
              /\ \A c \in LetCases : tokens = c.toks => ret.ok /\ ret.val = c.expr
              /\ tokens \in BrokenLets => ~ret.ok
              /\ ret.ok =>
                    /\ ret.val.kind = "Let"
                    /\ ret.val.symbol = Symbol(tokens[2].name)
                    /\ tokens[3] # TColon => ret.val.ty = Unknown /\ tokens[3] = TEqual
                    /\ \E i \in 3..Len(tokens) : \E j \in (i + 2)..Len(tokens) :
                          tokens[i] = TEqual /\ tokens[j] = TSemicolon
        /\ tokens = Eoi(<<TLet, Id("a"), TColon, TVec, TOpenBracket, TI32, TCloseBracket, TEqual,
                          TOpenBracket, TI32Literal(2), TComma, TI32Literal(3), TCloseBracket,
                          TSemicolon, Id("a")>>) =>
              ret.val = WithTy(Let(Symbol(<<"a">>), MakeVector(<<I32Literal(2), I32Literal(3)>>),
                                   Var("a")),
                               Vector(Scalar("I32")))

\* 'let v : {bool, ?} = a : i32; let w = v; w': the let has the annotation,
\* the value its own ascription, the body none
C19_Witness ==
    /\ pc = "parse_expr"
    /\ tokens = Eoi(<<TLet, Id("v"), TColon, TOpenBrace, TBool, TComma, TQuestion, TCloseBrace,
                      TEqual, Id("a"), TColon, TI32, TSemicolon,
                      TLet, Id("w"), TEqual, Id("v"), TSemicolon, Id("w")>>)
    /\ ret.ok
    /\ ret.val.ty = Struct(<<Scalar("Bool"), Unknown>>)
    /\ ret.val.value = WithTy(Var("a"), Scalar("I32"))
    /\ ret.val.body = Let(Symbol(<<"w">>), Var("v"), Var("w"))

\* The tokens after which an operand is read by operator_expr: the binary
\* operators that start no lambda, and the `=` of a let
BeforeOperand == (BinOpTokens \ {TBar, TLogicalOr}) \cup {TEqual}

(* C20: a let or a lambda without parentheses is accepted where a full
   expression is expected: at the top level, in parentheses, as an element of
   a vector or a struct, as an argument of a call and of if, for, merge and
   result, as the body of a let, of a lambda and of a macro.  As the value of
   a let ('let a = |x| x; a', 'let a = let b = 1; b; a') and as the right
   operand of a binary operator ('a + |x| x') it is rejected with an error. *)
C20_LetAndLambdaOnlyAsFullExpressions ==
    /\ pc = "parse_expr" =>
          /\ \A c \in PlacedCases : tokens = Eoi(c.toks) => ret.ok /\ ret.val = c.expr
          /\ tokens \in { Eoi(s) : s \in MisplacedInputs } => ~ret.ok
          /\ (\E i \in 2..Len(tokens) :
                  tokens[i] \in {TLet, TBar, TLogicalOr} /\ tokens[i - 1] \in BeforeOperand) =>
                ~ret.ok
    /\ pc = "parse_program" =>
          /\ \A c \in MacroBodyCases : tokens = Eoi(c.toks) => ret.ok /\ ret.val = c.expr
          /\ tokens \in { Eoi(s) : s \in MisplacedInputs } => ~ret.ok

\* 'let v = |x| x; v': the lambda stands where the value of the let is read
C20_Witness ==
    /\ pc = "parse_expr"
    /\ tokens = Eoi(<<TLet, Id("v"), TEqual, TBar, Id("x"), TBar, Id("x"), TSemicolon, Id("v")>>)
    /\ ~ret.ok
    /\ ret.err = WeldError("Expected expression but got '{}'", TBar)
    /\ position = 4

\* toks is  let v = operand (operator operand)* ; v EndOfInput
ValueOf(toks) == SubSeq(toks, 4, Len(toks) - 3)
LetOfFlat(toks) ==
    /\ Len(toks) >= 7
    /\ SubSeq(toks, 1, 3) = <<TLet, Id("v"), TEqual>>
    /\ SubSeq(toks, Len(toks) - 2, Len(toks)) = <<TSemicolon, Id("v"), TEndOfInput>>
    /\ IsFlat(Eoi(ValueOf(toks)))

LooserThanSum(tok) == Level(tok) \in 1..7

(* C21 as claimed: the value of a let is a level-8 expression, so a let whose
   value has an operator of the levels 1 to 7 (||, &&, |, ^, &, ==, !=, <, <=,
   >, >=) outside parentheses, as in 'let a = b == c; a', is an error. *)
C21_LetValueIsAdditive ==
    (/\ pc = "parse_expr"
     /\ LetOfFlat(tokens)
     /\ \E i \in 1..Len(ValueOf(tokens)) : LooserThanSum(ValueOf(tokens)[i])) =>
        ~ret.ok

(* C21 amended: the value of a let is an operator expression of any level
   (let_expr reads it with operator_expr).  'let v = a op b ...; v' is
   accepted for the operators of all nine levels, the value being grouped as
   at the top level (tokens in textual order, tighter operators first), and is
   an error exactly when the value chains two equality or two comparison
   operators. *)
C21_LetValueIsAnOperatorExpression ==
    (pc = "parse_expr" /\ LetOfFlat(tokens)) =>
        /\ ret.ok <=> NoChain(ValueOf(tokens))
        /\ ret.ok =>
              /\ ret.val.kind = "Let"
              /\ ret.val.ty = Unknown
              /\ ret.val.symbol = Symbol(<<"v">>)
              /\ ret.val.body = Var("v")
              /\ InOrder(ret.val.value) = ValueOf(tokens)
              /\ TighterFirst(ret.val.value)
        /\ Len(ValueOf(tokens)) = 3 =>
              ret.val = Let(Symbol(<<"v">>),
                            BinOp(KindOf(ValueOf(tokens)[2]), Var("a"), Var("b")),
                            Var("v"))
        /\ ValueOf(tokens) = <<Id("a"), TLogicalOr, Id("b"), TEqualEqual, Id("c")>> =>
              ret.val = Let(Symbol(<<"v">>),
                            BinOp("LogicalOr", Var("a"),
                                  BinOp("Equal", Var("b"), Var("c"))),
                            Var("v"))

\* 'let v = a == b; v' is a Let of an Equal
C21_Witness ==
    /\ pc = "parse_expr"
    /\ tokens = Eoi(<<TLet, Id("v"), TEqual, Id("a"), TEqualEqual, Id("b"), TSemicolon,
                      Id("v")>>)
    /\ ret.ok
    /\ ret.val = Let(Symbol(<<"v">>), BinOp("Equal", Var("a"), Var("b")), Var("v"))

\* text without its leading zeros (one 0 at least is kept)
RECURSIVE StripZeros(_)
StripZeros(text) ==
    IF Len(text) > 1 /\ Head(text) = "0" THEN StripZeros(Tail(text)) ELSE text

AllDigits(text) == \A i \in 1..Len(text) : IsDigit(text[i])

\* the decimal digits of u32::MAX = 4294967295
U32MaxText == <<"4", "2", "9", "4", "9", "6", "7", "2", "9", "5">>

\* digit sequences without leading zeros, compared as numbers
Above(x, y) ==
    \/ Len(x) > Len(y)
    \/ /\ Len(x) = Len(y)
       /\ \E i \in 1..Len(x) :
             /\ DigitValue(x[i]) > DigitValue(y[i])
             /\ \A k \in 1..(i - 1) : x[k] = y[k]

\* text is a decimal number of 0..2^32-1
DenotesU32(text) ==
    text # <<>> /\ AllDigits(text) /\ ~Above(StripZeros(text), U32MaxText)

\* the texts after `$` of the field indexes that follow a `.` in toks
IndexTextsOf(toks) ==
    { Tail(toks[i + 1].name) :
        i \in { k \in 1..(Len(toks) - 1) : toks[k] = TDot /\ IsFieldIndex(toks[k + 1]) } }

(* C22: for 'e.$N' the text after '$' is read as a base-10 u32.  Every N of
   0..2^32-1, leading zeros allowed, gives GetField(e, N) with that index;
   an empty text, a text that is no decimal number and a number above 2^32-1
   give the error 'Expected field index'; no index is wrapped modulo 2^32:
   the digits of every index of a returned GetField are those written. *)
C22_FieldIndexIsAU32 ==
    pc = "parse_expr" =>
        /\ \A c \in 1..Len(IndexCases) :
              /\ tokens = Eoi(Indexed(IndexCases[c].text)) =>
                    ret.ok /\ ret.val = GetField(Var("a"), IndexCases[c].index)
              /\ tokens = Eoi(Indexed(IndexCases[c].text) \o <<TDot, Field("0")>>) =>
                    /\ ret.ok
                    /\ ret.val = GetField(GetField(Var("a"), IndexCases[c].index), U32(0, 0))
        /\ \A text \in BadIndexTexts :
              tokens \in { Eoi(s) : s \in IndexInputs(text) } =>
                  /\ ~ret.ok
                  /\ ret.err = WeldError("Expected field index but got '{}'", FieldOf(text))
        /\ (\E text \in IndexTextsOf(tokens) : ~DenotesU32(text)) => ~ret.ok
        /\ \A n \in ReturnedNodes :
              n.kind = "GetField" =>
                  /\ n.index.hi \in 0..(Half - 1)
                  /\ n.index.lo \in 0..(Half - 1)
                  /\ \E text \in IndexTextsOf(tokens) :
                        DenotesU32(text) /\ StripZeros(text) = DecU32(n.index)

\* 'a.$4294967295': the largest index
C22_Witness ==
    /\ pc = "parse_expr"
    /\ tokens = Eoi(<<Id("a"), TDot, FieldOf(U32MaxText)>>)
    /\ ret.ok
    /\ ret.val = GetField(Var("a"), U32Max)

(* C23: application and field access chain to the left at one level: each
   '(args)' and each '.$N' wraps the whole expression parsed so far, the
   arguments are kept in source order, each argument is a full expression (a
   lambda, a let), and an empty argument list is allowed.
   'a.$0(0,1).$1()' is Apply(GetField(Apply(GetField(a,0),[0,1]),1),[]). *)
C23_ApplicationChainsToTheLeft ==
    pc = "parse_expr" =>
        /\ (Len(tokens) >= 2 /\ tokens[1] = Id("a")) =>
              \A c \in ChainCases : tokens = c.toks => ret.ok /\ ret.val = c.expr
        /\ tokens = Eoi(<<Id("a"), TDot, Field("0"), TOpenParen, TI32Literal(0), TComma,
                          TI32Literal(1), TCloseParen, TDot, Field("1"), TOpenParen,
                          TCloseParen>>) =>
              ret.val = Apply(GetField(Apply(GetField(Var("a"), U32(0, 0)),
                                             <<I32Literal(0), I32Literal(1)>>),
                                       U32(0, 1)),
                              <<>>)

\* 'a(|x| x, let y = 1; y).$1()': two full expressions as arguments, then a
\* field access and an empty argument list around the application
C23_Witness ==
    /\ pc = "parse_expr"
    /\ tokens = Eoi(ChainToks(<<6, 2, 3>>))
    /\ ret.ok
    /\ ret.val.kind = "Apply"
    /\ ret.val.params = <<>>
    /\ ret.val.func.kind = "GetField"
    /\ ret.val.func.index = U32(0, 1)
    /\ ret.val.func.expr.kind = "Apply"
    /\ ret.val.func.expr.func = Var("a")
    /\ ret.val.func.expr.params[1].kind = "Lambda"
    /\ ret.val.func.expr.params[2].kind = "Let"

(* C24: the older front-end (src/weld_ast/parser.rs) parses the complete
   input: its parse_expr and parse_type return Ok only if every token before
   EndOfInput has been consumed, and return an error when tokens remain after
   a valid expression or type. *)
C24_OlderFrontEndReadsTheCompleteInput ==
    (pc \in {"weld_ast::parse_expr", "weld_ast::parse_type"} /\ ret.ok) =>
        is_done(tokens, position)

\* '[1, 2+3, 2] b' is accepted as the vector, with b and EndOfInput unread
C24_Witness ==
    /\ pc = "weld_ast::parse_expr"
    /\ tokens = Eoi(<<TOpenBracket, Lit(1), TComma, Lit(2), TPlus, Lit(3), TComma, Lit(2),
                      TCloseBracket, Id("b")>>)
    /\ ret.ok
    /\ ret.val = MakeVector(<<I32Literal(1), BinOp("Add", I32Literal(2), I32Literal(3)),
                              I32Literal(2)>>)
    /\ position = Len(tokens) - 2
    /\ tokens[position + 1] = Id("b")

\* the tokens after which the parser reads an operand whatever came before
StartsOperand == BinOpTokens \cup {TOpenParen, TOpenBracket}

LiteralKinds == {"I32Literal", "I64Literal", "F32Literal", "F64Literal"}

(* C25: there is no unary minus.  A Minus is consumed only as the binary
   Subtract between two operands; a Minus where an operand is expected
   ('-5', 'a * -5', '(-a)') is rejected with the error 'Expected expression';
   no literal node has a negative value: every literal of a returned tree has
   the value of a literal token of the input. *)
C25_NoUnaryMinus ==
    pc \in {"parse_expr", "parse_program"} =>
        /\ tokens \in { Eoi(s) : s \in MinusOperands } =>
              /\ ~ret.ok
              /\ ret.err = WeldError("Expected expression but got '{}'", TMinus)
        /\ (pc = "parse_expr" /\ tokens[1] = TMinus) =>
              ret.err = WeldError("Expected expression but got '{}'", TMinus)
        /\ (\E i \in 2..Len(tokens) : tokens[i] = TMinus /\ tokens[i - 1] \in StartsOperand) =>
              ~ret.ok
        /\ pc = "parse_expr" =>
              \A c \in MinusBetween : tokens = Eoi(c.toks) => ret.ok /\ ret.val = c.expr
        /\ ret.ok =>
              /\ (\E i \in 1..Len(tokens) : tokens[i] = TMinus) <=>
                    (\E n \in ReturnedNodes : n.kind = "BinOp" /\ n.op = "Subtract")
              /\ \A n \in ReturnedNodes :
                    n.kind \in LiteralKinds =>
                        /\ n.value >= 0
                        /\ \E i \in 1..Len(tokens) :
                              /\ tokens[i].k = "T" \o n.kind
                              /\ tokens[i].value = n.value

\* 'a * -5': the Minus stands where the right operand of * is read
C25_Witness ==
    /\ pc = "parse_expr"
    /\ tokens = Eoi(<<Id("a"), TTimes, TMinus, TI32Literal(5)>>)
    /\ ~ret.ok
    /\ ret.err = WeldError("Expected expression but got '{}'", TMinus)
    /\ position = 3

\* items separated by single commas, with or without one comma after the last
Separated(lay) ==
    \A i \in 1..Len(lay) :
        IF i % 2 = 1 THEN lay[i] = "item" ELSE lay[i] = "comma"

\* the list of kind k with the items 1..n, as the entry point returns it
ListVal(k, n) ==
    LET items == [i \in 1..n |-> ItemVal(k, i)] IN
    CASE k = "vector" -> MakeVector(items)
      [] k = "struct" -> MakeStruct(items)
      [] k = "args" -> Apply(Var("f"), items)
      [] k = "lambda" -> Lambda(items, Var("x"))
      [] k = "macro" -> Program(<<Macro(Symbol(<<"m">>), items, Var("x"))>>, Var("a"))
      [] OTHER -> Struct(items)

\* every list of every kind with what its entry point is to return
ListCases ==
    { [toks |-> Eoi(ListToks(k, lay)), entry |-> ListEntry(k), separated |-> Separated(lay),
       val |-> ListVal(k, ItemsBefore(lay, Len(lay)))] :
      k \in ListKinds, lay \in Layouts }

(* C26: in every comma-separated list (vector literal, struct literal, call
   arguments, lambda parameters, macro parameters, struct type) one trailing
   comma before the closing delimiter is accepted and gives the same result
   as the list without it; a leading comma, two consecutive commas and two
   items with no comma between them are errors. *)
C26_CommaSeparatedLists ==
    \A c \in ListCases :
        (pc = c.entry /\ tokens = c.toks) =>
            /\ ret.ok <=> c.separated
            /\ ret.ok => ret.val = c.val

\* '|a, b,| x': the parameters a and b, as for '|a, b| x'
C26_Witness ==
    /\ pc = "parse_expr"
    /\ tokens = Eoi(<<TBar, Id("a"), TComma, Id("b"), TComma, TBar, Id("x")>>)
    /\ ret.ok
    /\ ret.val = Lambda(<<PartialParameter(Symbol(<<"a">>), Unknown),
                          PartialParameter(Symbol(<<"b">>), Unknown)>>, Var("x"))

(* C27: parentheses create no node: '(e)' returns exactly the node parsed
   for e.  An ascription written after a parenthesised expression replaces
   the type already attached to that node: '(a: i32): i64' is the node a with
   type i64, '(let x: i32 = 1; x): i64' the Let node with type i64.  Without
   a following ':' the type of the inner node is left as it was. *)
C27_ParenthesesCreateNoNode ==
    pc = "parse_expr" =>
        /\ tokens[1] \in {TOpenParen, TLet, TBar, TAppender, TOpenBracket, Id("a")} =>
              \A c \in ParenCases : tokens = Eoi(c.toks) => ret.ok /\ ret.val = c.expr
        /\ tokens = Eoi(<<TOpenParen, Id("a"), TColon, TI32, TCloseParen, TColon, TI64>>) =>
              ret.val = WithTy(Var("a"), Scalar("I64"))
        /\ tokens = Eoi(<<TOpenParen, TLet, Id("x"), TColon, TI32, TEqual, TI32Literal(1),
                          TSemicolon, Id("x"), TCloseParen, TColon, TI64>>) =>
              ret.val = WithTy(Let(Symbol(<<"x">>), I32Literal(1), Var("x")), Scalar("I64"))
        /\ tokens = Eoi(<<TOpenParen, Id("a"), TColon, TI32, TCloseParen>>) =>
              ret.val = WithTy(Var("a"), Scalar("I32"))

\* '((let x: i32 = 1; x)): ?': the Let node, its type replaced by Unknown
C27_Witness ==
    /\ pc = "parse_expr"
    /\ tokens = Eoi(<<TOpenParen, TOpenParen, TLet, Id("x"), TColon, TI32, TEqual,
                      TI32Literal(1), TSemicolon, Id("x"), TCloseParen, TCloseParen, TColon,
                      TQuestion>>)
    /\ ret.ok
    /\ ret.val = Let(Symbol(<<"x">>), I32Literal(1), Var("x"))

---------------------------------------------------------------------------
(* easy_ll: the modules compile_module returns *)

Modules == 1..Len(modules)

Complete(m) == modules[m].engine.some /\ modules[m].function.some

\* the call of t returns Err in this step and drops its local module m
ErrReturnDrops(t, m) ==
    /\ threads[t].result = m
    /\ threads'[t].pc = "idle"
    /\ ~threads'[t].out.ok
    /\ threads'[t].out.err # ""
    /\ modules'[m].where = "dropped"

\* C28 as it was stated: every module returned as Ok has its engine and its
\* function set and run never unwraps None; and a module whose function is
\* None exists only on a path of compile_module that ends in Err, so that no
\* call whose module has function = None goes on to `Ok(result)`.
C28_FunctionNoneOnlyOnErrPaths ==
    [][\A t \in Threads :
          (threads[t].result # 0 /\ ~modules[threads[t].result].function.some)
              => threads'[t].pc # "Ok"]_vars

\* C28, amended: every module compile_module returns as Ok has both its
\* engine and its function set (Some), so run never unwraps None.  A module
\* whose function is None exists only inside compile_module (every module
\* starts like this, on the paths that end in Ok as well) or after it was
\* dropped there, and the only way it leaves compile_module is by being
\* dropped when the call returns Err.
C28_ReturnedModulesAreComplete ==
    /\ [](/\ \A m \in Modules :
               /\ modules[m].where = "caller" => Complete(m)
               /\ ~modules[m].function.some => modules[m].where \in {"compile_module", "dropped"}
               /\ modules[m].function.some => modules[m].engine.some
          /\ \A t \in Threads :
               /\ threads[t].pc # "panicked"
               /\ threads[t].out.ok => Complete(threads[t].out.module)
               /\ threads[t].pc = "Ok" => Complete(threads[t].result))
    /\ [][\A m \in Modules :
            /\ modules[m].function.some => modules'[m].function = modules[m].function
            /\ (~modules[m].function.some /\ modules'[m].where # modules[m].where)
                  => \E t \in Threads : ErrReturnDrops(t, m)]_vars

\* A returned module has run, and another call has dropped its module, which
\* had an engine but no function, on the way to Err
C28_Witness ==
    /\ \E m \in Modules : modules[m].where = "caller" /\ modules[m].ran /\ Complete(m)
    /\ \E m \in Modules :
          /\ modules[m].where = "dropped"
          /\ modules[m].engine.some
          /\ ~modules[m].function.some
          /\ threads[modules[m].owner].out = LlvmError("No run function in module")

---------------------------------------------------------------------------
(* easy_ll: initialization *)

InInitialize ==
    {"LLVM_InitializeNativeTarget", "LLVM_InitializeNativeAsmPrinter",
     "LLVM_InitializeNativeAsmParser", "LLVMLinkInMCJIT", "call_once_return"}

\* t has not reached the Once, or is waiting at it
BeforeOnce(t) == threads[t].pc \in {"idle", "call_once"}

InitializationFailed == LlvmError("LLVM initialization failed")

\* C29: whatever the interleaving of the calls, initialize() is entered at
\* most once, by one thread at a time, and has returned before a caller reads
\* initialize_failed; once it has returned nothing of the initialization
\* changes again (no retry); and if it failed no context is ever created and
\* every call that returns returns 'LLVM initialization failed'.
C29_InitializedOnceBeforeAnyRead ==
    /\ [](/\ initialize_runs <= 1
          /\ initialize_runs = 0 <=> ONCE = "INCOMPLETE"
          /\ ONCE = "RUNNING" <=> \E t \in Threads : threads[t].pc \in InInitialize
          /\ \A t, u \in Threads :
                (threads[t].pc \in InInitialize /\ threads[u].pc \in InInitialize) => t = u
          /\ \A t \in Threads :
                /\ ~BeforeOnce(t) /\ threads[t].pc \notin InInitialize => ONCE = "COMPLETE"
                /\ threads[t].out # NoCall => ONCE = "COMPLETE"
          /\ initialize_failed =>
                /\ modules = <<>>
                /\ \A t \in Threads :
                      /\ threads[t].pc \in {"idle", "call_once", "call_once_return",
                                            "initialize_failed"}
                      /\ threads[t].out \in {NoCall, InitializationFailed})
    /\ [][ONCE = "COMPLETE" => UNCHANGED <<ONCE, initialize_failed, initialize_runs>>]_vars

\* initialize() has run once and failed, all the calls have been made, and
\* the calls of two different threads have returned the error
C29_Witness ==
    /\ initialize_failed
    /\ initialize_runs = 1
    /\ calls = MaxCompiles
    /\ \E t, u \in Threads :
          /\ t # u
          /\ threads[t] = [Idle EXCEPT !.out = InitializationFailed]
          /\ threads[u] = [Idle EXCEPT !.out = InitializationFailed]

---------------------------------------------------------------------------
(* easy_ll: what is disposed of, and when *)

\* what has to be disposed of for m once it is dropped
Disposals(m) ==
    (IF modules[m].engine.some THEN <<"LLVMDisposeExecutionEngine">> ELSE <<>>)
        \o <<"LLVMContextDispose">>

\* the ways a call can end after the context was created
Endings ==
    {"Null byte in string", "LLVMCreateMemoryBufferWithMemoryRange failed",
     "Compile error: {}", "Module verification failed: {}",
     "No run function in module", "Run function has wrong type: {}",
     "LLVMCreatePassManager returned null", "LLVMPassManagerBuilderCreate returned null",
     "Creating execution engine failed: {}"}

\* C30: for every context that was created there is one CompiledModule.
\* While the module is alive nothing of it has been disposed of; when it is
\* dropped, by an Err return of compile_module at any step after the context
\* was created or by the caller after Ok, the context is disposed of exactly
\* once, the engine exactly once if it was created and not at all otherwise,
\* and the engine before the context; nothing is disposed of after that.
C30_ContextAndEngineDisposedOnce ==
    /\ [](\A m \in Modules :
             /\ modules[m].context = m
             /\ modules[m].engine.some => modules[m].engine.val = m
             /\ modules[m].where \in {"compile_module", "caller", "dropped"}
             /\ modules[m].where # "dropped" => modules[m].disposed = <<>>
             /\ modules[m].where = "dropped" => modules[m].disposed = Disposals(m)
             /\ modules[m].where = "compile_module" <=>
                   \E t \in Threads : threads[t].result = m)
    /\ [](\A t \in Threads :
             /\ threads[t].result # 0 <=>
                   threads[t].pc \in {"parse_module", "verify_module", "check_run_function",
                                      "optimize_module", "create_exec_engine",
                                      "find_run_function", "Ok"}
             /\ threads[t].result # 0 => threads[t].result \in Modules)
    /\ [][\A m \in Modules :
            /\ modules[m].where = "dropped" => modules'[m] = modules[m]
            /\ (\E t \in Threads : threads[t].result = m /\ threads'[t].result # m)
                  => \/ modules'[m].where = "caller"
                     \/ /\ modules'[m].where = "dropped"
                        /\ threads'[modules[m].owner].out.err \in Endings]_vars

\* One module was dropped by the caller after Ok and both were disposed of,
\* another was dropped when the engine could not be created and only its
\* context was disposed of
C30_Witness ==
    \E m, n \in Modules :
        /\ modules[m].disposed = <<"LLVMDisposeExecutionEngine", "LLVMContextDispose">>
        /\ modules[m].function.some
        /\ modules[n].disposed = <<"LLVMContextDispose">>
        /\ threads[modules[n].owner].out = LlvmError("Creating execution engine failed: {}")

=============================================================================
